---------------------------- MODULE Spec2Model ----------------------------
(***************************************************************************)
(* Model of the DSAA Agents diagram viewer: the filtered diagram builders  *)
(* of diagrams.py, the interactive session of app.py and the diagram       *)
(* generation endpoint of utils/api.py.                                    *)
(*                                                                         *)
(* Text is a sequence of tokens: the newline character NL and the contents *)
(* of one line (a string without newline).  String concatenation is \o.    *)
(* A Python dict is a sequence of <<key, value>> pairs in insertion order. *)
(***************************************************************************)
EXTENDS Integers, Sequences, FiniteSets, TLC

NL == "\n"

(***************************************************************************)
(* Template tables of diagrams.py, token by token.                         *)
(***************************************************************************)
ARCH_BLOCKS_literal ==
  [ api |-> <<
      NL, "subgraph API[\"API / UI Layer (Request Surface)\"]", NL, "  UI[Web UI / Chat UI]", NL,
      "  API1[FastAPI / Gateway]", NL, "  UI --> API1", NL, "end", NL >>,
    orchestrator |-> <<
      NL, "subgraph ORCH[\"Orchestrator (Control Plane)\"]", NL, "  ROUTER[Router / Policy]", NL,
      "  STATE[State Store]", NL, "  ROUTER <--> STATE", NL, "end", NL >>,
    agents |-> <<
      NL, "subgraph AG[\"Agents (Intent + Reasoning)\"]", NL, "  PLAN[Planner Agent]", NL,
      "  SPEC[\"Specialized Agents<br/>(Policy, DS, Ops, Risk)\"]", NL,
      "  VALID[Validator / Critic]", NL, "  PLAN --> SPEC", NL, "  SPEC --> VALID", NL, "end", NL >>,
    retrieval |-> <<
      NL, "subgraph RAG[\"Retrieval (RAG Data Plane)\"]", NL, "  EMB[Embed Query]", NL,
      "  VEC[Vector Search]", NL, "  CHUNK[Top-K Chunks]", NL, "  AUG[Prompt Augmentation]", NL,
      "  EMB --> VEC --> CHUNK --> AUG", NL, "end", NL >>,
    tools |-> <<
      NL, "subgraph TOOLS[\"Tools / Actions (Execution)\"]", NL,
      "  DBT[\"DB Tool<br/>(SQL/NoSQL/Warehouse)\"]", NL,
      "  FILE[\"Doc Tool<br/>(PDF/DOC/HTML)\"]", NL, "  WEB[Web Search Tool]", NL,
      "  ACT[\"Action Tool<br/>(API calls / tickets / emails)\"]", NL, "end", NL >>,
    data |-> <<
      NL, "subgraph DATA[\"Data Stores\"]", NL, "  VDB[(Vector DB)]", NL, "  POL[(Policy Docs)]",
      NL, "  DWH[(Warehouse / Lake)]", NL, "  LOGS[(Logs / Traces)]", NL, "end", NL >>,
    governance |-> <<
      NL, "subgraph GOV[\"Governance (Safety Rails)\"]", NL, "  AUTH[AuthN/AuthZ]", NL,
      "  PII[PII / Secrets Filter]", NL, "  INJ[Prompt Injection Guard]", NL,
      "  PROV[Provenance / Citation Policy]", NL, "end", NL >>,
    obs |-> <<
      NL, "subgraph OBS[\"Observability\"]", NL, "  MET[Metrics]", NL, "  TRC[Traces]", NL,
      "  EVAL[Offline Eval / Regression Tests]", NL, "end", NL >>,
    ds |-> <<
      NL, "subgraph DSX[\"DS Project Workflows (as a workload)\"]", NL,
      "  DSREQ[Project Brief / Hypothesis]", NL, "  DSPIP[\"EDA, Features, Model, Eval\"]", NL,
      "  DSPKG[\"Packaging<br/>(Batch/Realtime)\"]", NL, "end", NL >> ]

AGENT_DIAGRAM_literal ==
  <<
    "stateDiagram-v2", NL, "  [*] --> Plan : goal", NL, "  Plan --> Retrieve : step / query", NL,
    "  Retrieve --> Ground : chunks", NL, "  Ground --> Reason : augmented prompt", NL,
    "  Reason --> Validate : draft answer", NL, "  Validate --> Decide : OK", NL,
    "  Validate --> Fallback : insufficient / conflict", NL,
    "  Fallback --> Retrieve : retry / tier-switch", NL, "  Decide --> Act : tool call / report",
    NL, "  Act --> Log : telemetry", NL, "  Log --> [*]", NL >>

DS_BLOCKS_literal ==
  [ main |-> <<
      "flowchart TB", NL, "  subgraph DS[\"Data Science Project Depth (Agentized)\"]", NL,
      "    BRIEF[\"Project Brief Agent<br/>(scope, KPI, constraints)\"]", NL,
      "    DATAAUD[\"Data QA Agent<br/>(nulls, drift, leakage checks)\"]", NL,
      "    EDA[\"EDA Agent<br/>profiles, segments, anomalies\"]", NL,
      "    FEAT[\"Feature Agent<br/>transforms, selection, leakage guard\"]", NL,
      "    TRAIN[\"Training Agent<br/>CV, tuning, baselines\"]", NL,
      "    EVAL[\"Evaluation Agent<br/>metrics, stability, fairness\"]", NL,
      "    PKG[\"Packaging Agent<br/>batch/realtime, schema contracts\"]", NL,
      "    DEP[\"Deployment Agent<br/>CI/CD, infra, rollout\"]", NL,
      "    MON[\"Monitoring Agent<br/>drift, quality, alarms\"]", NL,
      "    BRIEF --> DATAAUD --> EDA --> FEAT --> TRAIN --> EVAL --> PKG --> DEP --> MON", NL,
      "  end", NL, NL, "  subgraph RAGX[\"RAG Grounding (Reusable)\"]", NL, "    RET[Retriever]",
      NL, "    KB[(Domain KB / Policy / Docs)]", NL, "    RET <--> KB", NL, "  end", NL, NL,
      "  subgraph TOOLX[\"Tools (Reusable)\"]", NL, "    SQL[SQL Tool]", NL, "    PY[Python Tool]",
      NL, "    FS[File Tool]", NL, "    VIZ[Viz Tool]", NL, "  end", NL, NL, "  BRIEF --> RET", NL,
      "  DATAAUD --> SQL", NL, "  EDA --> PY", NL, "  FEAT --> PY", NL, "  TRAIN --> PY", NL,
      "  EVAL --> VIZ", NL, "  PKG --> FS", NL, "  DEP --> FS", NL, "  MON --> SQL", NL >>,
    governance_overlay |-> <<
      NL, "  subgraph GOV[\"Governance Overlay (applies to ALL agents)\"]", NL,
      "    SCHEMA[\"Schema contracts<br/>(Pydantic / JSON schema)\"]", NL, "    PII2[PII masking]",
      NL, "    AUDIT[Audit logs]", NL, "  end", NL, "  BRIEF -.-> GOV", NL, "  EVAL -.-> GOV", NL,
      "  PKG -.-> GOV", NL >> ]

COMPLETE_DIAGRAM ==
  <<
    "flowchart LR", NL, NL, "%% =======================", NL, "%% API / UI LAYER", NL,
    "%% =======================", NL, "subgraph API[\"API / UI Layer (Request Surface)\"]", NL,
    "  UI[Web UI / Chat UI]", NL, "  API1[FastAPI / Gateway]", NL, "  UI --> API1", NL, "end", NL,
    NL, "%% =======================", NL, "%% ORCHESTRATOR", NL, "%% =======================", NL,
    "subgraph ORCH[\"Orchestrator (Control Plane)\"]", NL, "  ROUTER[Router / Policy Engine]", NL,
    "  STATE[State Store]", NL, "  ROUTER <--> STATE", NL, "end", NL, NL,
    "%% =======================", NL, "%% AGENTS", NL, "%% =======================", NL,
    "subgraph AG[\"Agents (Intent + Reasoning)\"]", NL, "  PLAN[Planner Agent]", NL,
    "  SPEC[\"Specialized Agents<br/>(Policy, DS, Ops, Risk)\"]", NL,
    "  VALID[Validator / Critic]", NL, "  PLAN --> SPEC --> VALID", NL, "end", NL, NL,
    "%% =======================", NL, "%% RAG DATA PLANE", NL, "%% =======================", NL,
    "subgraph RAG[\"Retrieval (RAG Data Plane)\"]", NL, "  EMB[Embed Query]", NL,
    "  VEC[Vector Search]", NL, "  CHUNK[Top-K Chunks]", NL, "  AUG[Prompt Augmentation]", NL,
    "  EMB --> VEC --> CHUNK --> AUG", NL, "end", NL, NL, "%% =======================", NL,
    "%% TOOLS / ACTIONS", NL, "%% =======================", NL,
    "subgraph TOOLS[\"Tools / Actions (Execution)\"]", NL,
    "  DBT[\"DB Tool<br/>(SQL / NoSQL / Warehouse)\"]", NL,
    "  FILE[\"Doc Tool<br/>(PDF / DOC / HTML)\"]", NL, "  WEB[Web Search Tool]", NL,
    "  ACT[\"Actions<br/>(APIs, Tickets, Emails)\"]", NL, "end", NL, NL,
    "%% =======================", NL, "%% DATA STORES", NL, "%% =======================", NL,
    "subgraph DATA[\"Data Stores\"]", NL, "  VDB[(Vector DB)]", NL, "  POL[(Policy Docs)]", NL,
    "  DWH[(Warehouse / Lake)]", NL, "  LOGS[(Logs / Traces)]", NL, "end", NL, NL,
    "%% =======================", NL, "%% GOVERNANCE", NL, "%% =======================", NL,
    "subgraph GOV[\"Governance (Safety Rails)\"]", NL, "  AUTH[AuthN / AuthZ]", NL,
    "  PII[PII & Secrets Filter]", NL, "  INJ[Prompt Injection Guard]", NL,
    "  PROV[Provenance / Citation Policy]", NL, "end", NL, NL, "%% =======================", NL,
    "%% OBSERVABILITY", NL, "%% =======================", NL, "subgraph OBS[\"Observability\"]",
    NL, "  MET[Metrics]", NL, "  TRC[Traces]", NL, "  EVAL[Offline Eval / Regression Tests]", NL,
    "end", NL, NL, "%% =======================", NL, "%% DS WORKLOAD", NL,
    "%% =======================", NL, "subgraph DSX[\"Data Science Project (Workload)\"]", NL,
    "  DSREQ[Problem Statement / Hypothesis]", NL, "  DSPIP[\"EDA, Features, Model, Eval\"]", NL,
    "  DSPKG[\"Packaging<br/>(Batch / Realtime)\"]", NL, "end", NL, NL,
    "%% =======================", NL, "%% CROSS-LINKS", NL, "%% =======================", NL,
    "API1 --> ROUTER", NL, "ROUTER --> PLAN", NL, "VALID --> ROUTER", NL, NL, "SPEC --> EMB", NL,
    "AUG --> SPEC", NL, NL, "VEC <--> VDB", NL, "CHUNK --> POL", NL, NL, "SPEC --> DBT", NL,
    "SPEC --> FILE", NL, "SPEC --> WEB", NL, "VALID --> ACT", NL, NL, "DBT <--> DWH", NL,
    "FILE <--> POL", NL, "ACT --> DWH", NL, NL, "API1 --> MET", NL, "ROUTER --> TRC", NL,
    "VALID --> TRC", NL, "ACT --> TRC", NL, "TRC --> LOGS", NL, NL, "API1 --> AUTH", NL,
    "SPEC --> PII", NL, "SPEC --> INJ", NL, "VALID --> PROV", NL, NL, "PLAN --> DSREQ", NL,
    "DSREQ --> DSPIP", NL, "DSPIP --> DSPKG", NL, "DSPKG --> ACT", NL >>

\* the module-level names of diagrams.py, bound at import to the literals above
VARIABLES
  ARCH_BLOCKS,    \* the table of architecture fragments
  AGENT_DIAGRAM,  \* the agent flow text
  DS_BLOCKS       \* the table of data-science texts

(***************************************************************************)
(* Python dict operations on insertion-ordered dicts.                      *)
(***************************************************************************)
DictKeys(d) == { d[i][1] : i \in 1..Len(d) }

DictIndex(d, k) == CHOOSE i \in 1..Len(d) : d[i][1] = k

\* d.get(k, default)
DictGet(d, k, default) ==
  IF k \in DictKeys(d) THEN d[DictIndex(d, k)][2] ELSE default

\* d[k] = v : an existing key keeps its position, a new key is appended
DictSet(d, k, v) ==
  IF k \in DictKeys(d)
    THEN [d EXCEPT ![DictIndex(d, k)] = <<k, v>>]
    ELSE Append(d, <<k, v>>)

\* the 9 component tags, in the order block_order lists them
block_order ==
  << "api", "orchestrator", "agents", "retrieval", "tools", "data",
     "governance", "obs", "ds" >>

Tags == { block_order[i] : i \in 1..Len(block_order) }

\* a preset literal: every tag in source order with its value
PresetDict(vals) == [ i \in 1..Len(block_order) |-> <<block_order[i], vals[i]>> ]

PRESETS_literal ==
  [ all_on      |-> PresetDict(<<TRUE, TRUE, TRUE, TRUE, TRUE, TRUE, TRUE, TRUE, TRUE>>),
    all_off     |-> PresetDict(<<FALSE, FALSE, FALSE, FALSE, FALSE, FALSE, FALSE, FALSE, FALSE>>),
    rag_agents  |-> PresetDict(<<TRUE, TRUE, TRUE, TRUE, TRUE, TRUE, TRUE, TRUE, FALSE>>),
    ds_pipeline |-> PresetDict(<<FALSE, FALSE, TRUE, TRUE, TRUE, TRUE, TRUE, TRUE, TRUE>>),
    governance  |-> PresetDict(<<TRUE, TRUE, TRUE, TRUE, TRUE, TRUE, TRUE, TRUE, FALSE>>) ]

PresetNames == DOMAIN PRESETS_literal

(***************************************************************************)
(* build_architecture_diagram                                              *)
(***************************************************************************)
ArchHeader ==
  << "flowchart LR", NL, "%% === Agentic RAG Platform: Separation of Concerns ===", NL >>

CrossLinksComment ==
  << NL, "%% Cross-links (only show if both ends enabled)", NL >>

\* AddBlocks without the test of the flag: every block is added
RECURSIVE AddBlocks_Always(_, _, _)
AddBlocks_Always(diagram, fltrs, i) ==
  IF i > Len(block_order) THEN diagram
  ELSE AddBlocks_Always(diagram \o ARCH_BLOCKS[block_order[i]], fltrs, i + 1)

\* AddBlocks iterating the items of filters instead of block_order
RECURSIVE AddBlocks_DictOrder(_, _, _)
AddBlocks_DictOrder(diagram, fltrs, i) ==
  IF i > Len(fltrs) THEN diagram
  ELSE AddBlocks_DictOrder(IF fltrs[i][2] /\ fltrs[i][1] \in Tags
                             THEN diagram \o ARCH_BLOCKS[fltrs[i][1]]
                             ELSE diagram,
                           fltrs, i + 1)

\* for tag in block_order: if filters.get(tag, False): diagram += ARCH_BLOCKS[tag]
RECURSIVE AddBlocks(_, _, _)
AddBlocks(diagram, fltrs, i) ==
  IF i > Len(block_order) THEN diagram
  ELSE AddBlocks(IF DictGet(fltrs, block_order[i], FALSE)
                   THEN diagram \o ARCH_BLOCKS[block_order[i]]
                   ELSE diagram,
                 fltrs, i + 1)

\* has testing the presence of the key instead of its value
has_KeyPresent(fltrs, tag) == tag \in DictKeys(fltrs)

has(fltrs, tag) == DictGet(fltrs, tag, FALSE)

\* "\n".join(links)
RECURSIVE JoinNL(_)
JoinNL(links) ==
  IF Len(links) = 0 THEN << >>
  ELSE IF Len(links) = 1 THEN << links[1] >>
  ELSE << links[1], NL >> \o JoinNL(Tail(links))

\* list.append under a condition
AppendIf(cond, links, more) == IF cond THEN links \o more ELSE links

\* observability links that each need the data tag next to their source tag
obs_links_NeedData(fltrs) ==
  IF has(fltrs, "data")
    THEN AppendIf(has(fltrs, "tools"),
           AppendIf(has(fltrs, "agents"),
             AppendIf(has(fltrs, "orchestrator"),
               AppendIf(has(fltrs, "api"), << >>, << "API1 --> MET" >>),
               << "ROUTER --> TRC" >>),
             << "VALID --> TRC" >>),
           << "ACT --> TRC" >>) \o << "TRC --> LOGS" >>
    ELSE << >>

obs_links(fltrs) ==
  AppendIf(has(fltrs, "data"),
    AppendIf(has(fltrs, "tools"),
      AppendIf(has(fltrs, "agents"),
        AppendIf(has(fltrs, "orchestrator"),
          AppendIf(has(fltrs, "api"), << >>, << "API1 --> MET" >>),
          << "ROUTER --> TRC" >>),
        << "VALID --> TRC" >>),
      << "ACT --> TRC" >>),
    << "TRC --> LOGS" >>)

gov_links(fltrs) ==
  AppendIf(has(fltrs, "agents"),
    AppendIf(has(fltrs, "api"), << >>, << "API1 --> AUTH" >>),
    << "SPEC --> PII", "SPEC --> INJ", "VALID --> PROV" >>)

\* diagram += "\n".join(links) + "\n", whether or not there are links
GroupText_AlwaysNewline(links) == JoinNL(links) \o << NL >>

\* diagram += "\n".join(links) + "\n" if links else ""
GroupText(links) == IF Len(links) > 0 THEN JoinNL(links) \o << NL >> ELSE << >>

\* diagram += text, under a condition
AddIf(cond, diagram, text) == IF cond THEN diagram \o text ELSE diagram

CrossLinks(fltrs) ==
  LET d1 == AddIf(has(fltrs, "api") /\ has(fltrs, "orchestrator"), << >>,
                  << "API1 --> ROUTER", NL >>)
      d2 == AddIf(has(fltrs, "orchestrator") /\ has(fltrs, "agents"), d1,
                  << "ROUTER --> PLAN", NL, "VALID --> ROUTER", NL >>)
      d3 == AddIf(has(fltrs, "agents") /\ has(fltrs, "retrieval"), d2,
                  << "SPEC --> EMB", NL, "AUG --> SPEC", NL >>)
      d4 == AddIf(has(fltrs, "retrieval") /\ has(fltrs, "data"), d3,
                  << "VEC <--> VDB", NL, "CHUNK --> POL", NL >>)
      d5 == AddIf(has(fltrs, "tools") /\ has(fltrs, "agents"), d4,
                  << "SPEC --> DBT", NL, "SPEC --> FILE", NL, "SPEC --> WEB", NL,
                     "VALID --> ACT", NL >>)
      d6 == AddIf(has(fltrs, "tools") /\ has(fltrs, "data"), d5,
                  << "DBT <--> DWH", NL, "FILE <--> POL", NL, "WEB --> POL", NL,
                     "ACT --> DWH", NL >>)
      d7 == AddIf(has(fltrs, "obs"), d6, GroupText(obs_links(fltrs)))
      d8 == AddIf(has(fltrs, "governance"), d7, GroupText(gov_links(fltrs)))
      d9 == AddIf(has(fltrs, "ds") /\ has(fltrs, "agents"), d8,
                  << "PLAN --> DSREQ", NL, "DSPIP --> SPEC", NL, "DSPKG --> ACT", NL >>)
  IN  d9

\* build_architecture_diagram adding the links before the blocks
build_architecture_diagram_LinksFirst(fltrs) ==
  AddBlocks(ArchHeader \o CrossLinksComment \o CrossLinks(fltrs), fltrs, 1)

\* build_architecture_diagram without the comment line in front of the links
build_architecture_diagram_NoComment(fltrs) ==
  AddBlocks(ArchHeader, fltrs, 1) \o CrossLinks(fltrs)

build_architecture_diagram(fltrs) ==
  AddBlocks(ArchHeader, fltrs, 1) \o CrossLinksComment \o CrossLinks(fltrs)

(***************************************************************************)
(* build_agent_diagram, build_ds_diagram                                   *)
(***************************************************************************)
AgentPlaceholder ==
  << "flowchart TB", NL, "A[Enable 'Agents' to view the Agent Graph]" >>

\* build_agent_diagram reading the flag of another tag
build_agent_diagram_WrongKey(fltrs) ==
  IF DictGet(fltrs, "ds", FALSE) THEN AGENT_DIAGRAM ELSE AgentPlaceholder

build_agent_diagram(fltrs) ==
  IF DictGet(fltrs, "agents", FALSE) THEN AGENT_DIAGRAM ELSE AgentPlaceholder

DsPlaceholder ==
  << "flowchart TB", NL, "A[Enable 'DS Project Depth' to view the DS pipeline]" >>

\* build_ds_diagram putting the overlay in front of the pipeline
build_ds_diagram_OverlayFirst(fltrs) ==
  IF DictGet(fltrs, "ds", FALSE)
    THEN IF DictGet(fltrs, "governance", FALSE)
           THEN DS_BLOCKS["governance_overlay"] \o << NL >> \o DS_BLOCKS["main"]
           ELSE DS_BLOCKS["main"]
    ELSE DsPlaceholder

\* build_ds_diagram gating the overlay on the data flag as well
build_ds_diagram_DataGated(fltrs) ==
  IF DictGet(fltrs, "ds", FALSE)
    THEN IF DictGet(fltrs, "governance", FALSE) /\ DictGet(fltrs, "data", FALSE)
           THEN DS_BLOCKS["main"] \o << NL >> \o DS_BLOCKS["governance_overlay"]
           ELSE DS_BLOCKS["main"]
    ELSE DsPlaceholder

build_ds_diagram(fltrs) ==
  IF DictGet(fltrs, "ds", FALSE)
    THEN IF DictGet(fltrs, "governance", FALSE)
           THEN DS_BLOCKS["main"] \o << NL >> \o DS_BLOCKS["governance_overlay"]
           ELSE DS_BLOCKS["main"]
    ELSE DsPlaceholder

(***************************************************************************)
(* State.                                                                  *)
(***************************************************************************)
VARIABLES
  filters,        \* the dict handed to a direct call of a builder
  called,         \* the builder that was called on it: "none" before the call
  result,         \* the text the call returned
  PRESETS,        \* the module-level table of preset dicts
  session_state,  \* << >> while st.session_state has no "filters", else << ref >>
  copied,         \* the dict object made by the latest .copy(), held by the session
  rerun_pending,  \* st.rerun() was raised and the script has not run again yet
  rendered,       \* the diagram texts the last complete script run rendered
  request,        \* << >>, or << r >> for the API request being answered
  response,       \* << >>, or << r >> for its response, not yet delivered
  custom_diagrams,  \* the rows of table custom_diagrams, by id
  sqlite_sequence,  \* the largest id the table has ever issued (AUTOINCREMENT)
  now,            \* CURRENT_TIMESTAMP
  calls,          \* the number of create, update and delete calls made so far
  db_call,        \* << >>, or << c >> for the repository call that has not returned yet
  submitted,      \* what callers hold: the values they created an id with, while nobody
                  \* has updated or deleted that id
  deleted,        \* what callers hold: the ids a delete call reported as deleted
  connections,    \* for each concurrent caller, its sqlite3 connection and call
  issued,         \* the ids concurrent create calls have returned, in order
  document,       \* << >>, or << d >> for the HTML document a render function returned
  script,         \* the inline script of the document: "none", "ran" or "failed"
  render,         \* the promise of mermaid.render: "none", "pending", "fulfilled", "rejected"
  container,      \* what #mermaid-root shows: "empty", "svg" or "error"
  renderedSvg,    \* the script's variable renderedSvg: "" or "svg"
  images,         \* the Image objects of PNG exports that have not loaded yet
  downloads,      \* the file names downloaded so far
  clicks          \* the clicks made on the export buttons, each with the state of render

vars ==
  << filters, called, result, PRESETS, session_state, copied, rerun_pending,
     rendered, request, response, custom_diagrams, sqlite_sequence, now, calls,
     db_call, submitted, deleted, connections, issued,
     ARCH_BLOCKS, AGENT_DIAGRAM, DS_BLOCKS,
     document, script, render, container, renderedSvg, images, downloads, clicks >>

build_vars == << filters, called, result >>
ui_vars    == << session_state, copied, rerun_pending, rendered >>
api_vars   == << request, response >>
conc_vars  == << connections, issued >>
store_vars ==
  << custom_diagrams, sqlite_sequence, now, calls, db_call, submitted, deleted, conc_vars >>
template_vars == << ARCH_BLOCKS, AGENT_DIAGRAM, DS_BLOCKS >>
doc_vars   == << document, script, render, container, renderedSvg, images, downloads, clicks >>

(***************************************************************************)
(* Direct calls of the three builders on a bounded set of dicts.           *)
(***************************************************************************)
\* at most this many of the 9 keys are left out of an input dict
MaxOmitted == 2

Reverse(s) == [ i \in 1..Len(s) |-> s[Len(s) + 1 - i] ]

\* insertion orders of the input dicts
KeyOrders == { block_order, Reverse(block_order) }

\* the dict with the keys of present, inserted in the order of order
RECURSIVE MakeDict(_, _, _)
MakeDict(order, present, val) ==
  IF Len(order) = 0 THEN << >>
  ELSE IF order[1] \in present
    THEN << <<order[1], val[order[1]]>> >> \o MakeDict(Tail(order), present, val)
    ELSE MakeDict(Tail(order), present, val)

InputDicts ==
  { MakeDict(order, present, val) :
      order \in KeyOrders,
      present \in { P \in SUBSET Tags : Cardinality(Tags \ P) <= MaxOmitted },
      val \in [Tags -> BOOLEAN] }

NoText == << >>

\* init_database on an empty file: the table exists and has no row
\* the concurrent callers of DiagramRepository
Callers == 1..2

\* a caller that has no call in flight and has made none
NoCall ==
  [ pc |-> "idle", n |-> 0, op |-> "none", args |-> << >>, ret |-> << >>,
    table |-> << >>, seq |-> 0, during |-> {} ]

InitStore ==
  /\ connections = [ c \in Callers |-> NoCall ]
  /\ issued = << >>
  /\ custom_diagrams = << >>
  /\ sqlite_sequence = 0
  /\ now = 0
  /\ calls = 0
  /\ db_call = << >>
  /\ submitted = << >>
  /\ deleted = {}

\* the module-level tables as diagrams.py defines them at import
InitTemplates ==
  /\ ARCH_BLOCKS = ARCH_BLOCKS_literal
  /\ AGENT_DIAGRAM = AGENT_DIAGRAM_literal
  /\ DS_BLOCKS = DS_BLOCKS_literal

\* no document has been produced
InitDoc ==
  /\ document = << >>
  /\ script = "none"
  /\ render = "none"
  /\ container = "empty"
  /\ renderedSvg = ""
  /\ images = 0
  /\ downloads = << >>
  /\ clicks = << >>

InitApp ==
  /\ InitTemplates
  /\ InitStore
  /\ InitDoc
  /\ PRESETS = PRESETS_literal
  /\ session_state = << >>
  /\ copied = << >>
  /\ rerun_pending = FALSE
  /\ rendered = << >>
  /\ request = << >>
  /\ response = << >>

Init ==
  /\ InitApp
  /\ filters \in InputDicts
  /\ called = "none"
  /\ result = NoText

\* a ds builder that accumulated its text in the table entry it started from
TablesAfter_InPlace(builder, fltrs) ==
  [ ARCH_BLOCKS |-> ARCH_BLOCKS, AGENT_DIAGRAM |-> AGENT_DIAGRAM,
    DS_BLOCKS |-> IF builder = "ds" /\ DictGet(fltrs, "ds", FALSE)
                    THEN [DS_BLOCKS EXCEPT !["main"] = build_ds_diagram(fltrs)]
                    ELSE DS_BLOCKS ]

\* the module-level tables after a builder ran: the builders index the tables
\* and concatenate into a local str, which is immutable
TablesAfter(builder, fltrs) ==
  [ ARCH_BLOCKS |-> ARCH_BLOCKS, AGENT_DIAGRAM |-> AGENT_DIAGRAM,
    DS_BLOCKS |-> DS_BLOCKS ]

\* the dict passed to a builder after it ran: filters.get only reads it
FiltersAfter(builder, fltrs) == fltrs

\* what a call of a builder leaves behind, next to the text it returns
Effects(builder) ==
  /\ filters' = FiltersAfter(builder, filters)
  /\ ARCH_BLOCKS' = TablesAfter(builder, filters).ARCH_BLOCKS
  /\ AGENT_DIAGRAM' = TablesAfter(builder, filters).AGENT_DIAGRAM
  /\ DS_BLOCKS' = TablesAfter(builder, filters).DS_BLOCKS
  /\ UNCHANGED << PRESETS, ui_vars, api_vars, store_vars, doc_vars >>

CallArchitecture ==
  /\ called' = "architecture"
  /\ result' = build_architecture_diagram(filters)
  /\ Effects("architecture")

CallAgent ==
  /\ called' = "agent"
  /\ result' = build_agent_diagram(filters)
  /\ Effects("agent")

CallDs ==
  /\ called' = "ds"
  /\ result' = build_ds_diagram(filters)
  /\ Effects("ds")

Next == CallArchitecture \/ CallAgent \/ CallDs

Spec == Init /\ [][Next]_vars

(***************************************************************************)
(* The interactive session of app.py.  The session holds a reference to    *)
(* its filters dict: the dict a .copy() made, or a dict stored in PRESETS. *)
(***************************************************************************)
RefCopy == << "copy" >>

RefPreset(name) == << "PRESETS", name >>

\* the dict a reference points to, in the heap made of the table P and the copy c
Deref(ref, P, c) == IF ref[1] = "PRESETS" THEN P[ref[2]] ELSE c

\* the table after the dict behind ref was set to d
StorePresets(ref, P, d) == IF ref[1] = "PRESETS" THEN [P EXCEPT ![ref[2]] = d] ELSE P

\* the copy after the dict behind ref was set to d
StoreCopy(ref, c, d) == IF ref[1] = "PRESETS" THEN c ELSE d

\* PRESETS[name] handed out without .copy(): the session aliases the table
CopyOfPreset_NoCopy(P, c, name) == [ref |-> RefPreset(name), obj |-> c]

\* PRESETS[name].copy(): the reference of a new dict and its entries
CopyOfPreset(P, c, name) == [ref |-> RefCopy, obj |-> P[name]]

\* the keys of filter_labels, in source order
filter_labels ==
  << "api", "orchestrator", "agents", "retrieval", "tools", "data",
     "governance", "obs", "ds" >>

\* a loop that keeps only the checked keys in the dict
RECURSIVE CheckboxLoop_KeepChecked(_, _, _)
CheckboxLoop_KeepChecked(d, toggled, i) ==
  IF i > Len(filter_labels) THEN d
  ELSE LET key     == filter_labels[i]
           value   == DictGet(d, key, TRUE)
           checked == IF key \in toggled THEN ~value ELSE value
       IN  CheckboxLoop_KeepChecked(
             IF checked THEN DictSet(d, key, TRUE)
                        ELSE SelectSeq(d, LAMBDA e : e[1] # key),
             toggled, i + 1)

\* for key in filter_labels: filters[key] = st.checkbox(value=filters.get(key, True))
\* a checkbox returns its value, negated if the user has just toggled it
RECURSIVE CheckboxLoop(_, _, _)
CheckboxLoop(d, toggled, i) ==
  IF i > Len(filter_labels) THEN d
  ELSE LET key     == filter_labels[i]
           value   == DictGet(d, key, TRUE)
           checked == IF key \in toggled THEN ~value ELSE value
       IN  CheckboxLoop(DictSet(d, key, checked), toggled, i + 1)

\* init_session_state: the reference and the copy after it
init_session_state ==
  IF session_state = << >>
    THEN CopyOfPreset(PRESETS, copied, "all_on")
    ELSE [ref |-> session_state[1], obj |-> copied]

\* one run of the script: toggled is the set of checkboxes the user has just
\* toggled, button is << >> or << name >> for the preset button just clicked
main(toggled, button) ==
  LET s0 == init_session_state
      d  == CheckboxLoop(Deref(s0.ref, PRESETS, s0.obj), toggled, 1)
      P1 == StorePresets(s0.ref, PRESETS, d)
      c1 == StoreCopy(s0.ref, s0.obj, d)
  IN  IF button # << >>
        THEN \* apply_preset(name); st.rerun()
             LET s1 == CopyOfPreset(P1, c1, button[1])
             IN  /\ session_state' = << s1.ref >>
                 /\ copied' = s1.obj
                 /\ PRESETS' = P1
                 /\ rerun_pending' = TRUE
                 /\ UNCHANGED rendered
        ELSE /\ session_state' = << s0.ref >>
             /\ copied' = c1
             /\ PRESETS' = P1
             /\ rerun_pending' = FALSE
             /\ rendered' = << [ architecture |-> build_architecture_diagram(d),
                                 agent        |-> build_agent_diagram(d),
                                 ds           |-> build_ds_diagram(d),
                                 complete     |-> COMPLETE_DIAGRAM ] >>

\* the page is loaded, or the script runs again after st.rerun()
ScriptRun ==
  /\ main({}, << >>)
  /\ UNCHANGED << build_vars, api_vars, store_vars, template_vars, doc_vars >>

\* the user toggles one checkbox of the rendered page
ToggleCheckbox(tag) ==
  /\ rendered # << >>
  /\ ~rerun_pending
  /\ main({tag}, << >>)
  /\ UNCHANGED << build_vars, api_vars, store_vars, template_vars, doc_vars >>

\* the user clicks one of the five preset buttons of the rendered page
ClickPreset(name) ==
  /\ rendered # << >>
  /\ ~rerun_pending
  /\ main({}, << name >>)
  /\ UNCHANGED << build_vars, api_vars, store_vars, template_vars, doc_vars >>

(***************************************************************************)
(* The diagram endpoints of utils/api.py.                                  *)
(***************************************************************************)
\* the model without its last field
DiagramFiltersFields_NoDs ==
  << "api", "orchestrator", "agents", "retrieval", "tools", "data",
     "governance", "obs" >>

\* the fields of DiagramFilters, in declaration order
DiagramFiltersFields ==
  << "api", "orchestrator", "agents", "retrieval", "tools", "data",
     "governance", "obs", "ds" >>

\* DiagramFilters(**json): every field, True unless the body sets it
DiagramFilters(json) ==
  [ i \in 1..Len(DiagramFiltersFields) |->
      << DiagramFiltersFields[i], DictGet(json, DiagramFiltersFields[i], TRUE) >> ]

\* request.filters.model_dump()
model_dump(m) == m

\* list(PRESETS.keys())
PRESETS_keys == << "all_on", "all_off", "rag_agents", "ds_pipeline", "governance" >>

\* the resolution with the two first branches exchanged
ResolveFilters_FiltersFirst(req, P) ==
  IF req.filters # << >>
    THEN model_dump(req.filters[1])
    ELSE IF req.preset # << >> /\ req.preset[1] # "" /\ req.preset[1] \in DOMAIN P
      THEN P[req.preset[1]]
      ELSE P["all_on"]

\* the filters generate_diagram resolves from the request
ResolveFilters(req, P) ==
  IF req.preset # << >> /\ req.preset[1] # "" /\ req.preset[1] \in DOMAIN P
    THEN P[req.preset[1]]
    ELSE IF req.filters # << >>
      THEN model_dump(req.filters[1])
      ELSE P["all_on"]

\* the dispatch without the branch of the complete diagram
DiagramTypes_NoComplete == { "architecture", "agent", "ds" }

\* the diagram types generate_diagram has a branch for
DiagramTypes == { "architecture", "agent", "ds", "complete" }

generate_diagram(req) ==
  /\ request = << >>
  /\ request' = << [path |-> "generate", body |-> req] >>
  /\ LET fltrs == ResolveFilters(req, PRESETS)
     IN  response' =
           << IF req.diagram_type \in DiagramTypes
                THEN [ status       |-> 200,
                       diagram_type |-> req.diagram_type,
                       filters      |-> fltrs,
                       mermaid_code |->
                         CASE req.diagram_type = "architecture" ->
                                build_architecture_diagram(fltrs)
                           [] req.diagram_type = "agent" -> build_agent_diagram(fltrs)
                           [] req.diagram_type = "ds" -> build_ds_diagram(fltrs)
                           [] req.diagram_type = "complete" -> COMPLETE_DIAGRAM ]
                ELSE [ status |-> 400,
                       detail |-> << "Invalid diagram_type: ", req.diagram_type,
                                     ". Use: architecture, agent, ds, complete" >> ] >>
  /\ UNCHANGED << build_vars, PRESETS, ui_vars, store_vars, template_vars, doc_vars >>

list_presets ==
  /\ request = << >>
  /\ request' = << [path |-> "presets"] >>
  /\ response' = << [status |-> 200, presets |-> PRESETS_keys, details |-> PRESETS] >>
  /\ UNCHANGED << build_vars, PRESETS, ui_vars, store_vars, template_vars, doc_vars >>

\* the response is serialized and sent; the handler keeps nothing
Deliver ==
  /\ response # << >>
  /\ request' = << >>
  /\ response' = << >>
  /\ UNCHANGED << build_vars, PRESETS, ui_vars, store_vars, template_vars, doc_vars >>

\* at most this many fields are set in the filters of a request body
MaxSupplied == 1

\* the filters objects of request bodies
JsonFilters ==
  { j \in UNION { [1..n -> Tags \X BOOLEAN] : n \in 0..MaxSupplied } :
      \A a, b \in 1..Len(j) : a # b => j[a][1] # j[b][1] }

\* preset of a request: absent, empty, unknown, or one of the shipped names
PresetInputs == { << >>, << "" >>, << "bogus" >> } \cup { << n >> : n \in PresetNames }

\* diagram_type of a request: the four documented values and an unknown one
TypeInputs == { "architecture", "agent", "ds", "complete", "bogus" }

ApiRequests ==
  [ diagram_type : TypeInputs,
    filters      : { << >> } \cup { << DiagramFilters(j) >> : j \in JsonFilters },
    preset       : PresetInputs ]

\* the requests made next to an interactive session
AppRequests ==
  [ diagram_type : TypeInputs \ { "bogus" },
    filters      : { << >> },
    preset       : { << >> } \cup { << n >> : n \in PresetNames } ]

InitIdle ==
  /\ InitApp
  /\ filters = << >>
  /\ called = "none"
  /\ result = NoText

NextApp ==
  \/ ScriptRun
  \/ \E tag \in Tags : ToggleCheckbox(tag)
  \/ \E name \in PresetNames : ClickPreset(name)
  \/ \E req \in AppRequests : generate_diagram(req)
  \/ list_presets
  \/ Deliver

SpecApp == InitIdle /\ [][NextApp]_vars

NextApi ==
  \/ \E req \in ApiRequests : generate_diagram(req)
  \/ list_presets
  \/ Deliver

SpecApi == InitIdle /\ [][NextApi]_vars

(***************************************************************************)
(* The saved-diagram store of utils/database.py: table custom_diagrams and *)
(* DiagramRepository.  None and NULL are << >>, a present value v of an    *)
(* optional argument or nullable column is << v >>.                        *)
(***************************************************************************)
Max(a, b) == IF a >= b THEN a ELSE b

MaxOf(S) == IF S = {} THEN 0 ELSE CHOOSE x \in S : \A y \in S : y <= x

\* a Python bool bound to a parameter of the statement is stored as 1 or 0
SqlBool(b) == IF b THEN 1 ELSE 0

\* json.dumps of a dict of booleans
RECURSIVE json_items(_)
json_items(d) ==
  IF Len(d) = 0 THEN << >>
  ELSE << "\"", d[1][1], "\": ", IF d[1][2] THEN "true" ELSE "false" >>
         \o (IF Len(d) > 1 THEN << ", " >> ELSE << >>) \o json_items(Tail(d))

json_dumps(d) == << "{" >> \o json_items(d) \o << "}" >>

\* the id of a table without AUTOINCREMENT: one more than the largest id present
NextId_NoAutoincrement(T, seq) == MaxOf(DOMAIN T) + 1

\* id INTEGER PRIMARY KEY AUTOINCREMENT: one more than the largest id ever issued
NextId(T, seq) == Max(seq, MaxOf(DOMAIN T)) + 1

\* the INSERT binding mermaid_code and name to each other's column
InsertRow_Swapped(id, t, a) ==
  [ id |-> id, name |-> a.mermaid_code, description |-> << a.description >>,
    diagram_type |-> a.diagram_type, mermaid_code |-> a.name,
    filters |-> IF a.filters # << >> /\ a.filters[1] # << >>
                  THEN << json_dumps(a.filters[1]) >> ELSE << >>,
    created_at |-> t, updated_at |-> t,
    is_public |-> SqlBool(a.is_public), user_id |-> a.user_id ]

\* the row INSERT INTO custom_diagrams makes of the arguments of create
InsertRow(id, t, a) ==
  [ id |-> id, name |-> a.name, description |-> << a.description >>,
    diagram_type |-> a.diagram_type, mermaid_code |-> a.mermaid_code,
    filters |-> IF a.filters # << >> /\ a.filters[1] # << >>
                  THEN << json_dumps(a.filters[1]) >> ELSE << >>,
    created_at |-> t, updated_at |-> t,
    is_public |-> SqlBool(a.is_public), user_id |-> a.user_id ]

\* the table with the row of id set to row
WithRow(T, id, row) == [ i \in DOMAIN T \cup { id } |-> IF i = id THEN row ELSE T[i] ]

WithoutRow(T, id) == [ i \in DOMAIN T \ { id } |-> T[i] ]

\* create leaving sqlite_sequence as it was
create_KeepSequence(T, seq, t, a) ==
  LET id == NextId(T, seq)
  IN  [ ret |-> id, table |-> WithRow(T, id, InsertRow(id, t, a)), seq |-> seq ]

\* DiagramRepository.create: the id returned, the table and the sequence after
create(T, seq, t, a) ==
  LET id == NextId(T, seq)
  IN  [ ret |-> id, table |-> WithRow(T, id, InsertRow(id, t, a)), seq |-> Max(seq, id) ]

\* DiagramRepository.get_by_id: << >> for None, << row >> for the dict of the row
get_by_id(T, id) == IF id \in DOMAIN T THEN << T[id] >> ELSE << >>

\* the WHERE clause without an owner selecting every row
SelectedIds_All(T, user_id, include_public) == DOMAIN T

\* the ids the WHERE clause of get_all selects
SelectedIds(T, user_id, include_public) ==
  IF user_id # << >> /\ user_id[1] # ""
    THEN IF include_public
           THEN { i \in DOMAIN T : T[i].user_id = user_id \/ T[i].is_public = 1 }
           ELSE { i \in DOMAIN T : T[i].user_id = user_id }
    ELSE { i \in DOMAIN T : T[i].is_public = 1 }

\* ORDER BY updated_at DESC: every order of the ids that respects it
OrderedDesc(T, S) ==
  { s \in [1..Cardinality(S) -> S] :
      /\ \A a, b \in 1..Cardinality(S) : a # b => s[a] # s[b]
      /\ \A a, b \in 1..Cardinality(S) : a < b => T[s[a]].updated_at >= T[s[b]].updated_at }

\* DiagramRepository.get_all: the lists of rows the query may return
get_all(T, user_id, include_public) ==
  { [ k \in 1..Len(s) |-> T[s[k]] ] :
      s \in OrderedDesc(T, SelectedIds(T, user_id, include_public)) }

UpdateFields == { "name", "description", "mermaid_code", "filters", "is_public" }

\* the arguments of update that are not None
Supplied(f) == { c \in UpdateFields : f[c] # << >> }

\* update testing the truth of its arguments instead of "is not None"
UpdatedRow_Truthy(row, t, f) ==
  [ row EXCEPT
      !.name         = IF f.name # << >> /\ f.name[1] # "" THEN f.name[1] ELSE @,
      !.description  = IF f.description # << >> /\ f.description[1] # ""
                         THEN f.description ELSE @,
      !.mermaid_code = IF f.mermaid_code # << >> /\ f.mermaid_code[1] # ""
                         THEN f.mermaid_code[1] ELSE @,
      !.filters      = IF f.filters # << >> /\ f.filters[1] # << >>
                         THEN << json_dumps(f.filters[1]) >> ELSE @,
      !.is_public    = IF f.is_public # << >> /\ f.is_public[1]
                         THEN SqlBool(f.is_public[1]) ELSE @,
      !.updated_at   = t ]

\* the row after UPDATE ... SET <supplied columns>, updated_at = CURRENT_TIMESTAMP
UpdatedRow(row, t, f) ==
  [ row EXCEPT
      !.name         = IF f.name # << >> THEN f.name[1] ELSE @,
      !.description  = IF f.description # << >> THEN f.description ELSE @,
      !.mermaid_code = IF f.mermaid_code # << >> THEN f.mermaid_code[1] ELSE @,
      !.filters      = IF f.filters # << >> THEN << json_dumps(f.filters[1]) >> ELSE @,
      !.is_public    = IF f.is_public # << >> THEN SqlBool(f.is_public[1]) ELSE @,
      !.updated_at   = t ]

\* update without the early return: the statement always sets updated_at
update_NoEarlyReturn(T, t, id, f) ==
  IF id \in DOMAIN T
    THEN [ ret |-> TRUE, table |-> WithRow(T, id, UpdatedRow(T[id], t, f)) ]
    ELSE [ ret |-> FALSE, table |-> T ]

\* DiagramRepository.update: what it returns and the table after
update(T, t, id, f) ==
  IF Supplied(f) = {}
    THEN [ ret |-> FALSE, table |-> T ]
    ELSE IF id \in DOMAIN T
      THEN [ ret |-> TRUE, table |-> WithRow(T, id, UpdatedRow(T[id], t, f)) ]
      ELSE [ ret |-> FALSE, table |-> T ]

\* delete reporting rowcount >= 0
delete_AlwaysTrue(T, id) == [ ret |-> TRUE, table |-> WithoutRow(T, id) ]

\* DiagramRepository.delete: what it returns (rowcount > 0) and the table after
delete(T, id) == [ ret |-> id \in DOMAIN T, table |-> WithoutRow(T, id) ]

\* at most this many calls of create, update and delete are made in a run
MaxCalls == 3

\* CURRENT_TIMESTAMP advances at most this many seconds in a run
MaxTime == 1

\* what a caller keeps of its own calls: the values it submitted for an id that
\* no update or delete has named since, and the ids whose delete succeeded
Remembered(op, args, ret) ==
  /\ submitted' =
       CASE op = "create" ->
              WithRow(submitted, ret,
                      [ name |-> args.name, mermaid_code |-> args.mermaid_code,
                        is_public |-> args.is_public ])
         [] op \in { "update", "delete" } -> WithoutRow(submitted, args.id)
         [] OTHER -> submitted
  /\ deleted' = IF op = "delete" /\ ret THEN deleted \cup { args.id } ELSE deleted

\* one call of a method of DiagramRepository: its own connection, one statement,
\* commit, close
Called(op, args, ret, T, seq) ==
  /\ op \in { "create", "update", "delete" } => calls < MaxCalls
  /\ db_call = << >>
  /\ db_call' = << [op |-> op, args |-> args, ret |-> ret] >>
  /\ custom_diagrams' = T
  /\ sqlite_sequence' = seq
  /\ calls' = IF op \in { "create", "update", "delete" } THEN calls + 1 ELSE calls
  /\ Remembered(op, args, ret)
  /\ UNCHANGED << now, conc_vars, build_vars, PRESETS, ui_vars, template_vars, doc_vars >>

\* the arguments the pages and other callers give to create
CreateInputs ==
  [ name : { "n1" }, mermaid_code : { "c1" }, diagram_type : { "flowchart" },
    description : { "" }, filters : { << >>, << << >> >>, << << <<"api", TRUE>> >> >> },
    is_public : { FALSE }, user_id : { << >> } ]
  \cup
  [ name : { "n1" }, mermaid_code : { "c1" }, diagram_type : { "flowchart" },
    description : { "" }, filters : { << >> },
    is_public : BOOLEAN, user_id : { << "u1" >> } ]
  \cup
  [ name : { "n2" }, mermaid_code : { "c2" }, diagram_type : { "flowchart" },
    description : { "d" }, filters : { << >> },
    is_public : { TRUE }, user_id : { << >> } ]

NoFields ==
  [ name |-> << >>, description |-> << >>, mermaid_code |-> << >>,
    filters |-> << >>, is_public |-> << >> ]

\* the keyword arguments given to update
UpdateInputs ==
  { NoFields,
    [ NoFields EXCEPT !.name = << "n3" >> ],
    [ NoFields EXCEPT !.mermaid_code = << "c3" >>, !.is_public = << TRUE >>,
                      !.filters = << << >> >> ],
    [ NoFields EXCEPT !.description = << "" >>, !.is_public = << FALSE >> ] }

\* the ids callers name
TargetIds == 1..2

\* the owners callers name: none, the empty string, a user
OwnerInputs == { << >>, << "" >>, << "u1" >> }

RepoCreate(a) ==
  /\ LET r == create(custom_diagrams, sqlite_sequence, now, a)
     IN  Called("create", a, r.ret, r.table, r.seq)
  /\ UNCHANGED api_vars

RepoGetById(id) ==
  /\ Called("get_by_id", [id |-> id], get_by_id(custom_diagrams, id),
            custom_diagrams, sqlite_sequence)
  /\ UNCHANGED api_vars

RepoGetAll(user_id, include_public) ==
  /\ \E rows \in get_all(custom_diagrams, user_id, include_public) :
       Called("get_all", [user_id |-> user_id, include_public |-> include_public],
              rows, custom_diagrams, sqlite_sequence)
  /\ UNCHANGED api_vars

RepoUpdate(id, f) ==
  /\ LET r == update(custom_diagrams, now, id, f)
     IN  Called("update", [id |-> id, fields |-> f], r.ret, r.table, sqlite_sequence)
  /\ UNCHANGED api_vars

RepoDelete(id) ==
  /\ LET r == delete(custom_diagrams, id)
     IN  Called("delete", [id |-> id], r.ret, r.table, sqlite_sequence)
  /\ UNCHANGED api_vars

\* a second passes
Tick ==
  /\ now < MaxTime
  /\ db_call = << >>
  /\ now' = now + 1
  /\ UNCHANGED << custom_diagrams, sqlite_sequence, calls, db_call, submitted, deleted,
                  conc_vars, build_vars, PRESETS, ui_vars, api_vars, template_vars, doc_vars >>

\* the method returns, and the response of the endpoint that called it is sent
Return ==
  /\ db_call # << >>
  /\ db_call' = << >>
  /\ request' = << >>
  /\ response' = << >>
  /\ UNCHANGED << custom_diagrams, sqlite_sequence, now, calls, submitted, deleted,
                  conc_vars, build_vars, PRESETS, ui_vars, template_vars, doc_vars >>

(***************************************************************************)
(* The endpoints of utils/api.py over the store.                           *)
(***************************************************************************)
\* the model CustomDiagramCreate of a JSON body that has name and mermaid_code
CustomDiagramCreate(json) ==
  [ name         |-> DictGet(json, "name", ""),
    mermaid_code |-> DictGet(json, "mermaid_code", ""),
    diagram_type |-> DictGet(json, "diagram_type", "flowchart"),
    description  |-> DictGet(json, "description", ""),
    is_public    |-> DictGet(json, "is_public", FALSE) ]

\* the model CustomDiagramUpdate of a JSON body: every field is optional
CustomDiagramUpdate(json) ==
  [ name         |-> IF "name" \in DictKeys(json)
                       THEN << DictGet(json, "name", "") >> ELSE << >>,
    mermaid_code |-> IF "mermaid_code" \in DictKeys(json)
                       THEN << DictGet(json, "mermaid_code", "") >> ELSE << >>,
    description  |-> IF "description" \in DictKeys(json)
                       THEN << DictGet(json, "description", "") >> ELSE << >>,
    is_public    |-> IF "is_public" \in DictKeys(json)
                       THEN << DictGet(json, "is_public", FALSE) >> ELSE << >> ]

\* the bodies posted to /api/v1/custom-diagrams
CreateBodies ==
  { << <<"name", "n1">>, <<"mermaid_code", "c1">> >>,
    << <<"name", "n2">>, <<"mermaid_code", "c2">>, <<"is_public", TRUE>> >> }

\* the bodies put to /api/v1/custom-diagrams/{diagram_id}
UpdateBodies ==
  { << >>, << <<"name", "n3">> >>,
    << <<"mermaid_code", "c3">>, <<"is_public", TRUE>> >> }

create_custom_diagram(diagram) ==
  /\ request = << >>
  /\ request' = << [path |-> "custom-diagrams", method |-> "POST", body |-> diagram] >>
  /\ LET a == [ name |-> diagram.name, mermaid_code |-> diagram.mermaid_code,
                diagram_type |-> diagram.diagram_type,
                description |-> diagram.description, filters |-> << >>,
                is_public |-> diagram.is_public, user_id |-> << >> ]
         r == create(custom_diagrams, sqlite_sequence, now, a)
     IN  /\ Called("create", a, r.ret, r.table, r.seq)
         /\ response' = << [ status |-> 200, id |-> r.ret,
                             message |-> "Diagram created successfully" ] >>

list_custom_diagrams(include_public) ==
  /\ request = << >>
  /\ request' = << [ path |-> "custom-diagrams", method |-> "GET",
                     include_public |-> include_public ] >>
  /\ \E rows \in get_all(custom_diagrams, << >>, include_public) :
       /\ Called("get_all", [user_id |-> << >>, include_public |-> include_public],
                 rows, custom_diagrams, sqlite_sequence)
       /\ response' = << [status |-> 200, diagrams |-> rows] >>

get_custom_diagram(diagram_id) ==
  /\ request = << >>
  /\ request' = << [ path |-> "custom-diagrams/{diagram_id}", method |-> "GET",
                     diagram_id |-> diagram_id ] >>
  /\ LET diagram == get_by_id(custom_diagrams, diagram_id)
     IN  /\ Called("get_by_id", [id |-> diagram_id], diagram,
                   custom_diagrams, sqlite_sequence)
         /\ response' =
              << IF diagram = << >>
                   THEN [status |-> 404, detail |-> "Diagram not found"]
                   ELSE [status |-> 200, diagram |-> diagram[1]] >>

update_custom_diagram(diagram_id, upd) ==
  /\ request = << >>
  /\ request' = << [ path |-> "custom-diagrams/{diagram_id}", method |-> "PUT",
                     diagram_id |-> diagram_id, body |-> upd ] >>
  /\ LET f == [ name |-> upd.name, description |-> upd.description,
                mermaid_code |-> upd.mermaid_code, filters |-> << >>,
                is_public |-> upd.is_public ]
         r == update(custom_diagrams, now, diagram_id, f)
     IN  /\ Called("update", [id |-> diagram_id, fields |-> f], r.ret, r.table,
                   sqlite_sequence)
         /\ response' =
              << IF ~ r.ret
                   THEN [status |-> 404, detail |-> "Diagram not found or no changes"]
                   ELSE [status |-> 200, message |-> "Diagram updated successfully"] >>

delete_custom_diagram(diagram_id) ==
  /\ request = << >>
  /\ request' = << [ path |-> "custom-diagrams/{diagram_id}", method |-> "DELETE",
                     diagram_id |-> diagram_id ] >>
  /\ LET r == delete(custom_diagrams, diagram_id)
     IN  /\ Called("delete", [id |-> diagram_id], r.ret, r.table, sqlite_sequence)
         /\ response' =
              << IF ~ r.ret
                   THEN [status |-> 404, detail |-> "Diagram not found"]
                   ELSE [status |-> 200, message |-> "Diagram deleted successfully"] >>

NextStore ==
  \/ \E a \in CreateInputs : RepoCreate(a)
  \/ \E id \in TargetIds : RepoGetById(id)
  \/ \E u \in OwnerInputs, p \in BOOLEAN : RepoGetAll(u, p)
  \/ \E id \in TargetIds, f \in UpdateInputs : RepoUpdate(id, f)
  \/ \E id \in TargetIds : RepoDelete(id)
  \/ \E j \in CreateBodies : create_custom_diagram(CustomDiagramCreate(j))
  \/ \E p \in BOOLEAN : list_custom_diagrams(p)
  \/ \E id \in TargetIds : get_custom_diagram(id)
  \/ \E id \in TargetIds, j \in UpdateBodies :
       update_custom_diagram(id, CustomDiagramUpdate(j))
  \/ \E id \in TargetIds : delete_custom_diagram(id)
  \/ Tick
  \/ Return

SpecStore == InitIdle /\ [][NextStore]_vars

(***************************************************************************)
(* The pages pages/2_Diagram_Editor.py and pages/3_Custom_Diagrams.py over *)
(* the store.                                                              *)
(***************************************************************************)
\* what the user has entered in the "Save Diagram" form of the editor
EditorInputs ==
  [ name : { "", "n1" }, mermaid_code : { "c1" }, diagram_type : { "flowchart" },
    description : { "d" }, is_public : BOOLEAN ]

\* what the user has entered in the "Quick Create" form
QuickInputs ==
  [ name : { "n2" }, mermaid_code : { "", "c2" },
    diagram_type : { "sequence" }, is_public : BOOLEAN ]

\* the choices of the "Diagram Type" selectbox next to "All"
TypeChoices == { "All", "flowchart", "sequence" }

\* "Save to Library" of the editor: saves when a name was entered
SaveToLibrary(a) ==
  /\ a.name # ""
  /\ LET args == [ name |-> a.name, mermaid_code |-> a.mermaid_code,
                   diagram_type |-> a.diagram_type, description |-> a.description,
                   filters |-> << >>, is_public |-> a.is_public, user_id |-> << >> ]
         r == create(custom_diagrams, sqlite_sequence, now, args)
     IN  Called("create", args, r.ret, r.table, r.seq)
  /\ UNCHANGED api_vars

\* "Save Diagram" of the quick-create form: saves when name and code were entered
QuickCreate(a) ==
  /\ a.name # "" /\ a.mermaid_code # ""
  /\ LET args == [ name |-> a.name, mermaid_code |-> a.mermaid_code,
                   diagram_type |-> a.diagram_type, description |-> "",
                   filters |-> << >>, is_public |-> a.is_public, user_id |-> << >> ]
         r == create(custom_diagrams, sqlite_sequence, now, args)
     IN  Called("create", args, r.ret, r.table, r.seq)
  /\ UNCHANGED api_vars

\* the list the page displays: diagrams after the three sidebar filters
Filtered(diagrams, show_public, show_private, selected_type, T) ==
  LET f1 == IF ~ show_public
              THEN SelectSeq(diagrams, LAMBDA d : d.is_public = 0) ELSE diagrams
      f2 == IF ~ show_private
              THEN SelectSeq(f1, LAMBDA d : d.is_public # 0) ELSE f1
      f3 == IF selected_type # "All"
              THEN SelectSeq(f2, LAMBDA d : d.diagram_type = selected_type) ELSE f2
  IN  f3

\* one run of the Custom Diagrams page with the sidebar set as given
CustomDiagramsPage(show_public, show_private, selected_type) ==
  /\ \E diagrams \in get_all(custom_diagrams, << >>, TRUE) :
       /\ selected_type \in { "All" } \cup { diagrams[k].diagram_type : k \in DOMAIN diagrams }
       /\ Called("page", [ show_public |-> show_public, show_private |-> show_private,
                           selected_type |-> selected_type ],
                 Filtered(diagrams, show_public, show_private, selected_type,
                          custom_diagrams),
                 custom_diagrams, sqlite_sequence)
  /\ UNCHANGED api_vars

\* the Delete button of a diagram the page displays
DeleteButton(id) ==
  /\ id \in SelectedIds(custom_diagrams, << >>, TRUE)
  /\ LET r == delete(custom_diagrams, id)
     IN  Called("delete", [id |-> id], r.ret, r.table, sqlite_sequence)
  /\ UNCHANGED api_vars

NextPages ==
  \/ \E a \in EditorInputs : SaveToLibrary(a)
  \/ \E a \in QuickInputs : QuickCreate(a)
  \/ \E p, q \in BOOLEAN, t \in TypeChoices : CustomDiagramsPage(p, q, t)
  \/ \E id \in TargetIds : DeleteButton(id)
  \/ Tick
  \/ Return

SpecPages == InitIdle /\ [][NextPages]_vars

(***************************************************************************)
(* The HTML documents of render_mermaid_html (app.py),                     *)
(* render_mermaid_with_export (utils/export.py) and render_styled_mermaid  *)
(* (utils/mermaid_styled.py), and what a browser does with them.  A text   *)
(* is a sequence of characters; a word that no step looks into is one      *)
(* token.                                                                  *)
(***************************************************************************)
\* the characters of a diagram text: a word, a double quote, a backslash, a
\* line break, and the end tag of a script element
Chars == { "graph", "\"", "\\", NL, "</script>" }

\* diagram texts have at most this many characters
MaxCodeLen == 2

\* at most this many clicks on the export buttons
MaxClicks == 2

DiagramTexts == UNION { [1..n -> Chars] : n \in 0..MaxCodeLen }

\* json.dumps of one character of a str: quote, backslash and line break are
\* escaped, "<" and "/" are not
json_escape(c) ==
  CASE c = "\"" -> << "\\", "\"" >>
    [] c = "\\" -> << "\\", "\\" >>
    [] c = NL   -> << "\\", "n" >>
    [] OTHER    -> << c >>

RECURSIVE json_chars(_)
json_chars(s) == IF s = << >> THEN << >> ELSE json_escape(Head(s)) \o json_chars(Tail(s))

\* json.dumps(mermaid_code)
json_dumps_str(s) == << "\"" >> \o json_chars(s) \o << "\"" >>

\* the functions whose document has the export buttons and exportDiagram
ExportFunctions == { "render_mermaid_with_export", "render_styled_mermaid" }

\* the statements of the inline script after "const code = ...;"
ScriptTail(fn) ==
  << ";", "mermaid.render('mermaid-svg', code).then(...).catch(...)" >>
    \o (IF fn \in ExportFunctions
          THEN << "function exportDiagram", "function downloadBlob" >> ELSE << >>)

\* the f-string the function returns, with code_escaped interpolated
Html(fn, mermaid_code) ==
  << "<script src=mermaid.min.js>", "</script>" >>
    \o (IF fn \in ExportFunctions
          THEN << "<button onclick=exportDiagram('svg')>",
                  "<button onclick=exportDiagram('png')>" >> ELSE << >>)
    \o << "<div id=mermaid-root>", "<script>", "mermaid.initialize", "const code = " >>
    \o json_dumps_str(mermaid_code)
    \o ScriptTail(fn)
    \o << "</script>" >>

\* the position of the first tok in s at or after from, 0 if there is none
FirstAt(s, tok, from) ==
  LET P == { i \in from..Len(s) : s[i] = tok }
  IN  IF P = {} THEN 0 ELSE CHOOSE i \in P : \A j \in P : i <= j

\* HTML parsing: the text of the inline script element runs from its start tag
\* to the first end tag of a script element that follows
ScriptSource(html) ==
  LET open  == FirstAt(html, "<script>", 1)
      close == FirstAt(html, "</script>", open + 1)
  IN  SubSeq(html, open + 1, close - 1)

\* the character a JavaScript escape sequence stands for
js_unescape(c) == IF c = "n" THEN NL ELSE c

\* JavaScript reading a double-quoted string literal after its opening quote:
\* whether it is terminated, its value, and the source after it
RECURSIVE js_string(_, _)
js_string(t, acc) ==
  IF t = << >> \/ t[1] = NL
    THEN [ok |-> FALSE, value |-> acc, rest |-> << >>]
  ELSE IF t[1] = "\""
    THEN [ok |-> TRUE, value |-> acc, rest |-> Tail(t)]
  ELSE IF t[1] = "\\"
    THEN IF Len(t) < 2
           THEN [ok |-> FALSE, value |-> acc, rest |-> << >>]
           ELSE js_string(SubSeq(t, 3, Len(t)), Append(acc, js_unescape(t[2])))
  ELSE js_string(Tail(t), Append(acc, t[1]))

\* the inline script as the JavaScript parser reads it
Parsed(src) ==
  IF Len(src) >= 3 /\ src[1] = "mermaid.initialize" /\ src[2] = "const code = "
       /\ src[3] = "\""
    THEN js_string(SubSeq(src, 4, Len(src)), << >>)
    ELSE [ok |-> FALSE, value |-> << >>, rest |-> << >>]

\* the script has no syntax error: it is run; otherwise none of it is
Compiles(fn, src) == Parsed(src).ok /\ Parsed(src).rest = ScriptTail(fn)

\* Mermaid rejects a text that does not begin with a diagram type
MustReject(code) == code = << >> \/ code[1] # "graph"

\* a render function is called on a text and returns its document
Produce(fn, mermaid_code) ==
  /\ document = << >>
  /\ document' = << [ fn |-> fn, mermaid_code |-> mermaid_code,
                      html |-> Html(fn, mermaid_code) ] >>
  /\ UNCHANGED << script, render, container, renderedSvg, images, downloads, clicks,
                  build_vars, PRESETS, ui_vars, api_vars, store_vars, template_vars >>

render_mermaid_html(mermaid_code) == Produce("render_mermaid_html", mermaid_code)

render_mermaid_with_export(mermaid_code) ==
  Produce("render_mermaid_with_export", mermaid_code)

render_styled_mermaid(mermaid_code) == Produce("render_styled_mermaid", mermaid_code)

\* the text the script hands to mermaid.render
code == Parsed(ScriptSource(document[1].html)).value

\* the browser parses the document and runs its inline script, up to the call
\* of mermaid.render; a script with a syntax error does not run at all
LoadDocument ==
  /\ document # << >>
  /\ script = "none"
  /\ IF Compiles(document[1].fn, ScriptSource(document[1].html))
       THEN script' = "ran" /\ render' = "pending"
       ELSE script' = "failed" /\ render' = "none"
  /\ UNCHANGED << document, container, renderedSvg, images, downloads, clicks,
                  build_vars, PRESETS, ui_vars, api_vars, store_vars, template_vars >>

\* the promise is fulfilled and the .then callback runs
RenderFulfilled ==
  /\ render = "pending"
  /\ ~ MustReject(code)
  /\ render' = "fulfilled"
  /\ container' = "svg"
  /\ renderedSvg' = IF document[1].fn \in ExportFunctions THEN "svg" ELSE renderedSvg
  /\ UNCHANGED << document, script, images, downloads, clicks,
                  build_vars, PRESETS, ui_vars, api_vars, store_vars, template_vars >>

\* the promise is rejected and the .catch callback runs
RenderRejected ==
  /\ render = "pending"
  /\ render' = "rejected"
  /\ container' = "error"
  /\ UNCHANGED << document, script, renderedSvg, images, downloads, clicks,
                  build_vars, PRESETS, ui_vars, api_vars, store_vars, template_vars >>

\* exportDiagram without the test of renderedSvg
exportDiagram_NoGuard(format) ==
  IF format = "svg"
    THEN downloads' = Append(downloads, "diagram.svg") /\ images' = images
    ELSE images' = images + 1 /\ downloads' = downloads

\* function exportDiagram(format) of a script that ran
exportDiagram(format) ==
  IF renderedSvg = ""
    THEN downloads' = downloads /\ images' = images
    ELSE IF format = "svg"
      THEN downloads' = Append(downloads, "diagram.svg") /\ images' = images
      ELSE images' = images + 1 /\ downloads' = downloads

\* a click on an export button of a loaded document: onclick calls
\* exportDiagram, which is not defined when the script did not run
Click(format) ==
  /\ document # << >>
  /\ document[1].fn \in ExportFunctions
  /\ script # "none"
  /\ Len(clicks) < MaxClicks
  /\ clicks' = Append(clicks, [format |-> format, render |-> render])
  /\ IF script = "ran"
       THEN exportDiagram(format)
       ELSE downloads' = downloads /\ images' = images
  /\ UNCHANGED << document, script, render, container, renderedSvg,
                  build_vars, PRESETS, ui_vars, api_vars, store_vars, template_vars >>

\* img.onload of a PNG export: the canvas is drawn, toBlob calls downloadBlob
ImageLoaded ==
  /\ images > 0
  /\ images' = images - 1
  /\ downloads' = Append(downloads, "diagram.png")
  /\ UNCHANGED << document, script, render, container, renderedSvg, clicks,
                  build_vars, PRESETS, ui_vars, api_vars, store_vars, template_vars >>

\* the image of a PNG export fails to load: no handler is set for that
ImageFailed ==
  /\ images > 0
  /\ images' = images - 1
  /\ UNCHANGED << document, script, render, container, renderedSvg, downloads, clicks,
                  build_vars, PRESETS, ui_vars, api_vars, store_vars, template_vars >>

NextDoc ==
  \/ \E c \in DiagramTexts : render_mermaid_html(c)
  \/ \E c \in DiagramTexts : render_mermaid_with_export(c)
  \/ \E c \in DiagramTexts : render_styled_mermaid(c)
  \/ LoadDocument
  \/ RenderFulfilled
  \/ RenderRejected
  \/ \E format \in { "svg", "png" } : Click(format)
  \/ ImageLoaded
  \/ ImageFailed

SpecDoc == InitIdle /\ [][NextDoc]_vars

(***************************************************************************)
(* Concurrent callers of DiagramRepository.  Every call opens its own      *)
(* connection (get_connection), executes one statement, which opens the    *)
(* implicit transaction and takes the write lock of the database file,     *)
(* commits, and returns.  A statement that finds the file locked waits in  *)
(* SQLite's busy handler until the lock is released.                       *)
(***************************************************************************)
\* the arguments concurrent callers give to create
ConcCreateInputs == { a \in CreateInputs : a.filters = << >> /\ a.user_id = << >> }

\* the calls a concurrent caller can make
ConcCalls ==
  { [op |-> "create", args |-> a] : a \in ConcCreateInputs }
  \cup { [op |-> "update", args |-> [id |-> id, fields |-> f]] :
           id \in TargetIds, f \in UpdateInputs }
  \cup { [op |-> "delete", args |-> [id |-> id]] : id \in TargetIds }

\* update returns False before it opens a connection when no field is supplied
ReturnsEarly(call) == call.op = "update" /\ Supplied(call.args.fields) = {}

\* the callers whose call is in flight
InFlight == { c \in Callers : connections[c].pc # "idle" }

\* the calls in flight: calls are numbered in the order they are entered
CallsInFlight == { connections[c].n : c \in InFlight }

\* a caller enters a method of DiagramRepository and opens its connection
Begin(c, call) ==
  /\ calls < MaxCalls
  /\ connections[c].pc = "idle"
  /\ connections' =
       [ connections EXCEPT ![c] =
           [ pc |-> IF ReturnsEarly(call) THEN "idle" ELSE "connected",
             n |-> calls + 1,
             op |-> call.op, args |-> << call.args >>,
             ret |-> IF ReturnsEarly(call) THEN << FALSE >> ELSE << >>,
             table |-> << >>, seq |-> 0,
             during |-> IF ReturnsEarly(call) THEN {} ELSE CallsInFlight ] ]
  /\ calls' = calls + 1
  /\ UNCHANGED << custom_diagrams, sqlite_sequence, now, db_call, submitted, deleted,
                  issued, build_vars, PRESETS, ui_vars, api_vars, template_vars,
                  doc_vars >>

\* a write statement runs without the write lock of the file
CanWrite_NoLock(c) == TRUE

\* a write statement runs when no other connection holds the write lock: a
\* connection holds it from its statement to its commit
CanWrite(c) == \A d \in Callers \ { c } : connections[d].pc # "executed"

\* the statement of a call on the committed table: what the call will return,
\* and the table and the sequence inside its transaction
Statement(op, args, T, seq, t) ==
  CASE op = "create" -> create(T, seq, t, args)
    [] op = "update" -> [ ret |-> update(T, t, args.id, args.fields).ret,
                          table |-> update(T, t, args.id, args.fields).table,
                          seq |-> seq ]
    [] op = "delete" -> [ ret |-> delete(T, args.id).ret,
                          table |-> delete(T, args.id).table, seq |-> seq ]

\* cursor.execute: the INSERT, UPDATE or DELETE inside the implicit transaction
Execute(c) ==
  /\ connections[c].pc = "connected"
  /\ CanWrite(c)
  /\ LET r == Statement(connections[c].op, connections[c].args[1], custom_diagrams,
                        sqlite_sequence, now)
     IN  connections' =
           [ connections EXCEPT ![c].pc = "executed", ![c].ret = << r.ret >>,
                                ![c].table = r.table, ![c].seq = r.seq ]
  /\ UNCHANGED << custom_diagrams, sqlite_sequence, now, calls, db_call, submitted,
                  deleted, issued, build_vars, PRESETS, ui_vars, api_vars,
                  template_vars, doc_vars >>

\* conn.commit(), after which the method returns lastrowid or rowcount > 0
Commit(c) ==
  /\ connections[c].pc = "executed"
  /\ custom_diagrams' = connections[c].table
  /\ sqlite_sequence' = connections[c].seq
  /\ connections' = [ connections EXCEPT ![c].pc = "idle", ![c].table = << >>,
                                         ![c].seq = 0 ]
  /\ issued' = IF connections[c].op = "create"
                 THEN Append(issued, connections[c].ret[1]) ELSE issued
  /\ UNCHANGED << now, calls, db_call, submitted, deleted, build_vars, PRESETS,
                  ui_vars, api_vars, template_vars, doc_vars >>

NextConc ==
  \/ \E c \in Callers, call \in ConcCalls : Begin(c, call)
  \/ \E c \in Callers : Execute(c)
  \/ \E c \in Callers : Commit(c)

SpecConc == InitIdle /\ [][NextConc]_vars

(***************************************************************************)
(* Vocabulary of the properties.                                           *)
(***************************************************************************)
\* the value stored under a key that is present
Value(d, k) == d[DictIndex(d, k)][2]

\* the tag is set, and set to true
SetTrue(d, k) == k \in DictKeys(d) /\ Value(d, k)

IsTotal(d) == DictKeys(d) = Tags /\ Len(d) = Cardinality(Tags)

\* del d[k]
DictRemove(d, k) == SelectSeq(d, LAMBDA e : e[1] # k)

\* the text has a line with exactly this content
HasLine(text, l) ==
  \E i \in 1..Len(text) :
    /\ text[i] = l
    /\ (i = 1 \/ text[i - 1] = NL)
    /\ (i = Len(text) \/ text[i + 1] = NL)

\* the positions at which the fragment occurs in the text
Positions(text, frag) ==
  { i \in 1..(Len(text) - Len(frag) + 1) : SubSeq(text, i, i + Len(frag) - 1) = frag }

Occurrences(text, frag) == Cardinality(Positions(text, frag))

FirstPos(text, frag) ==
  CHOOSE i \in Positions(text, frag) : \A j \in Positions(text, frag) : i <= j

\* the cross-link rules: the tags a rule tests and the link lines it appends
CrossLinkRules ==
  << [tags |-> {"api", "orchestrator"},    lines |-> {"API1 --> ROUTER"}],
     [tags |-> {"orchestrator", "agents"}, lines |-> {"ROUTER --> PLAN", "VALID --> ROUTER"}],
     [tags |-> {"agents", "retrieval"},    lines |-> {"SPEC --> EMB", "AUG --> SPEC"}],
     [tags |-> {"retrieval", "data"},      lines |-> {"VEC <--> VDB", "CHUNK --> POL"}],
     [tags |-> {"tools", "agents"},
      lines |-> {"SPEC --> DBT", "SPEC --> FILE", "SPEC --> WEB", "VALID --> ACT"}],
     [tags |-> {"tools", "data"},
      lines |-> {"DBT <--> DWH", "FILE <--> POL", "WEB --> POL", "ACT --> DWH"}],
     [tags |-> {"obs", "api"},             lines |-> {"API1 --> MET"}],
     [tags |-> {"obs", "orchestrator"},    lines |-> {"ROUTER --> TRC"}],
     [tags |-> {"obs", "agents"},          lines |-> {"VALID --> TRC"}],
     [tags |-> {"obs", "tools"},           lines |-> {"ACT --> TRC"}],
     [tags |-> {"obs", "data"},            lines |-> {"TRC --> LOGS"}],
     [tags |-> {"governance", "api"},      lines |-> {"API1 --> AUTH"}],
     [tags |-> {"governance", "agents"},
      lines |-> {"SPEC --> PII", "SPEC --> INJ", "VALID --> PROV"}],
     [tags |-> {"ds", "agents"},
      lines |-> {"PLAN --> DSREQ", "DSPIP --> SPEC", "DSPKG --> ACT"}] >>

\* the builder that was called, applied to another dict
Build(which, d) ==
  CASE which = "architecture" -> build_architecture_diagram(d)
    [] which = "agent"        -> build_agent_diagram(d)
    [] which = "ds"           -> build_ds_diagram(d)
    [] OTHER                  -> NoText

\* the dicts that differ from d in the entry of one tag outside keep
OtherFlagVariants(d, keep) ==
  { DictSet(d, t, v) : t \in Tags \ keep, v \in BOOLEAN }
    \cup { DictRemove(d, t) : t \in Tags \ keep }

(***************************************************************************)
(* Properties of the builders, checked under Spec.                         *)
(***************************************************************************)

C2_FragmentIffEnabled ==
  called = "architecture" =>
    /\ \A t \in DictKeys(filters) :
         Occurrences(result, ARCH_BLOCKS[t]) = (IF Value(filters, t) THEN 1 ELSE 0)
    /\ (IsTotal(filters) /\ \A t \in Tags :
                              Value(filters, t) <=> t \in {"api", "orchestrator", "agents"})
         => /\ HasLine(result, "API1 --> ROUTER")
            /\ HasLine(result, "ROUTER --> PLAN")
            /\ HasLine(result, "VALID --> ROUTER")
            /\ \A n \in DOMAIN CrossLinkRules :
                 ~(CrossLinkRules[n].tags \subseteq {"api", "orchestrator", "agents"})
                   => \A l \in CrossLinkRules[n].lines : ~HasLine(result, l)

\* the end-to-end scenario: exactly api, orchestrator and agents enabled
C2_Witness ==
  /\ called = "architecture"
  /\ IsTotal(filters)
  /\ \A t \in Tags : Value(filters, t) <=> t \in {"api", "orchestrator", "agents"}
  /\ Occurrences(result, ARCH_BLOCKS["agents"]) = 1
  /\ Occurrences(result, ARCH_BLOCKS["data"]) = 0

\* C3: the fragments in the output of build_architecture_diagram are in the
\* order of block_order, whatever the insertion order of the dict.
C3_CanonicalOrder ==
  called = "architecture" =>
    \A i, j \in 1..Len(block_order) :
      (i < j /\ SetTrue(filters, block_order[i]) /\ SetTrue(filters, block_order[j]))
        => /\ Positions(result, ARCH_BLOCKS[block_order[i]]) # {}
           /\ Positions(result, ARCH_BLOCKS[block_order[j]]) # {}
           /\ FirstPos(result, ARCH_BLOCKS[block_order[i]])
                < FirstPos(result, ARCH_BLOCKS[block_order[j]])

\* a dict whose keys were inserted in the reverse order, ds first and api last
C3_Witness ==
  /\ called = "architecture"
  /\ IsTotal(filters)
  /\ filters[1][1] = "ds" /\ filters[Len(filters)][1] = "api"
  /\ Value(filters, "ds") /\ Value(filters, "api")
  /\ FirstPos(result, ARCH_BLOCKS["api"]) < FirstPos(result, ARCH_BLOCKS["ds"])

\* every tag is set, and set to false
AllDisabled(d) == IsTotal(d) /\ \A t \in Tags : ~Value(d, t)

\* C4 as stated: with all 9 tags disabled build_architecture_diagram returns
\* exactly the header (the line declaring the diagram kind, with or without
\* the title comment that follows it) and no other line.
C4_Original_HeaderOnly ==
  (called = "architecture" /\ AllDisabled(filters))
    => result \in { << "flowchart LR" >>, << "flowchart LR", NL >>, ArchHeader }

\* C4 (amended): with all 9 tags disabled build_architecture_diagram returns
\* exactly the header (the line declaring the diagram kind and the title
\* comment), an empty line and the cross-links comment line: no fragment and
\* no link line.
C4_AllDisabledOutput ==
  (called = "architecture" /\ AllDisabled(filters))
    => /\ result = ArchHeader \o CrossLinksComment
       /\ \A t \in Tags : Occurrences(result, ARCH_BLOCKS[t]) = 0
       /\ \A n \in DOMAIN CrossLinkRules :
            \A l \in CrossLinkRules[n].lines : ~HasLine(result, l)

C4_Witness ==
  /\ called = "architecture"
  /\ AllDisabled(filters)
  /\ Len(result) = 7
  /\ HasLine(result, "%% Cross-links (only show if both ends enabled)")

\* C5 as stated: for each builder and each tag the dict leaves out, the
\* output equals the output for the same dict with that tag set to true.
C5_OmittedMeansEnabled ==
  called # "none" =>
    \A t \in Tags \ DictKeys(filters) : Build(called, DictSet(filters, t, TRUE)) = result

\* C6: with agents set to true build_agent_diagram returns AGENT_DIAGRAM, with
\* agents set to false it returns the placeholder, and changing the entry of
\* any other tag does not change the output.
C6_AgentSwitch ==
  (called = "agent" /\ "agents" \in DictKeys(filters)) =>
    /\ Value(filters, "agents") => result = AGENT_DIAGRAM
    /\ ~Value(filters, "agents") => result = AgentPlaceholder
    /\ \A d \in OtherFlagVariants(filters, {"agents"}) : build_agent_diagram(d) = result

\* agents enabled next to a disabled ds, and the full state diagram returned
C6_Witness ==
  /\ called = "agent"
  /\ SetTrue(filters, "agents")
  /\ "ds" \in DictKeys(filters) /\ ~Value(filters, "ds")
  /\ result = AGENT_DIAGRAM
  /\ result # AgentPlaceholder

\* C7 as stated: with ds and governance enabled the output of build_ds_diagram
\* is the main pipeline text immediately followed by the governance overlay
\* text, with nothing between them.
C7_Original_NothingBetween ==
  (called = "ds" /\ SetTrue(filters, "ds") /\ SetTrue(filters, "governance"))
    => result = DS_BLOCKS["main"] \o DS_BLOCKS["governance_overlay"]

\* C7 (amended): with ds and governance enabled the output of build_ds_diagram
\* is the main pipeline text, one newline character and the governance
\* overlay text, in that order; with ds enabled and governance disabled it is
\* exactly the main pipeline text; with ds disabled it is exactly the
\* placeholder for either governance value.
C7_DsOutput ==
  (called = "ds" /\ {"ds", "governance"} \subseteq DictKeys(filters)) =>
    /\ (Value(filters, "ds") /\ Value(filters, "governance"))
         => result = DS_BLOCKS["main"] \o << NL >> \o DS_BLOCKS["governance_overlay"]
    /\ (Value(filters, "ds") /\ ~Value(filters, "governance")) => result = DS_BLOCKS["main"]
    /\ ~Value(filters, "ds") => result = DsPlaceholder

C7_Witness ==
  /\ called = "ds"
  /\ SetTrue(filters, "ds") /\ SetTrue(filters, "governance")
  /\ Len(result) = Len(DS_BLOCKS["main"]) + 1 + Len(DS_BLOCKS["governance_overlay"])
  /\ Occurrences(result, DS_BLOCKS["governance_overlay"]) = 1

\* C8: the output of build_ds_diagram depends only on the entries of ds and
\* governance: changing, adding or removing the entry of any other tag leaves
\* the output unchanged.
C8_DsDependsOnDsAndGovernance ==
  called = "ds" =>
    \A d \in OtherFlagVariants(filters, {"ds", "governance"}) : build_ds_diagram(d) = result

\* ds and governance enabled while data is disabled: the overlay is there
C8_Witness ==
  /\ called = "ds"
  /\ SetTrue(filters, "ds") /\ SetTrue(filters, "governance")
  /\ "data" \in DictKeys(filters) /\ ~Value(filters, "data")
  /\ HasLine(result, "  BRIEF -.-> GOV")

(***************************************************************************)
(* Properties of the session and of the endpoints.                         *)
(***************************************************************************)
\* the filters dict of the session
SessionFilters == Deref(session_state[1], PRESETS, copied)

\* the response in flight answers a generate request with a diagram
Generated ==
  /\ response # << >>
  /\ request[1].path = "generate"
  /\ response[1].status = 200

NamesPreset(req) == req.preset \in { << n >> : n \in PresetNames }

\* C9: whatever presets were retrieved (init_session_state, apply_preset,
\* generate_diagram, list_presets) and however the session's dict was changed
\* afterwards, every entry of PRESETS has its original value, and each
\* retrieval returns the original values of the preset.
C9_PresetsImmutable ==
  /\ PRESETS = PRESETS_literal
  /\ (session_state # << >> /\ rerun_pending)
       => SessionFilters \in { PRESETS_literal[n] : n \in PresetNames }
  /\ (Generated /\ NamesPreset(request[1].body))
       => response[1].filters = PRESETS_literal[request[1].body.preset[1]]
  /\ (response # << >> /\ request[1].path = "presets")
       => response[1].details = PRESETS_literal

\* the session changed the dict it got from all_on, and all_on is retrieved
\* again afterwards by a request
C9_Witness ==
  /\ session_state # << >>
  /\ ~rerun_pending
  /\ ~Value(SessionFilters, "api")
  /\ Generated
  /\ request[1].body.preset = << "all_on" >>
  /\ \A t \in Tags : Value(response[1].filters, t)

(***************************************************************************)
(* Checked under SpecApi.                                                  *)
(***************************************************************************)
\* C10: a request that names a shipped preset is answered with that preset,
\* also when it carries filters; otherwise its filters are used if it has
\* some, otherwise all_on; the filters of the response are the configuration
\* the diagram text of the response was built from.
C10_ResolutionOrder ==
  Generated =>
    LET req == request[1].body
        r   == response[1]
    IN  /\ r.filters =
             IF NamesPreset(req) THEN PRESETS_literal[req.preset[1]]
             ELSE IF req.filters # << >> THEN req.filters[1]
             ELSE PRESETS_literal["all_on"]
        /\ r.diagram_type = req.diagram_type
        /\ r.diagram_type # "complete" => r.mermaid_code = Build(r.diagram_type, r.filters)

\* a request with the preset all_off and filters that enable everything
C10_Witness ==
  /\ Generated
  /\ request[1].body.preset = << "all_off" >>
  /\ request[1].body.filters # << >>
  /\ \A t \in Tags : Value(request[1].body.filters[1], t)
  /\ request[1].body.diagram_type = "architecture"
  /\ response[1].filters = PRESETS_literal["all_off"]
  /\ response[1].mermaid_code = ArchHeader \o CrossLinksComment

\* C11 as stated: a generate request that names a preset outside the shipped
\* ones is answered with a client error (status 4xx), never with a diagram.
C11_UnknownPresetRejected ==
  (response # << >> /\ request[1].path = "generate"
     /\ request[1].body.preset # << >>
     /\ request[1].body.preset[1] \notin (PresetNames \cup { "" }))
    => response[1].status \in 400..499

\* C12: generate_diagram answers with a diagram exactly for the diagram types
\* architecture, agent, ds and complete; for any other diagram_type the answer
\* is the 400 error, which carries no diagram text, whatever the filters and
\* the preset of the request.
C12_DiagramTypes ==
  (response # << >> /\ request[1].path = "generate") =>
    LET req == request[1].body
        r   == response[1]
    IN  IF req.diagram_type \in { "architecture", "agent", "ds", "complete" }
          THEN /\ r.status = 200
               /\ "mermaid_code" \in DOMAIN r
               /\ r.mermaid_code # NoText
          ELSE /\ r.status = 400
               /\ "mermaid_code" \notin DOMAIN r

\* an unknown diagram type next to a shipped preset and supplied filters
C12_Witness ==
  /\ response # << >>
  /\ request[1].path = "generate"
  /\ request[1].body.diagram_type = "bogus"
  /\ request[1].body.preset = << "all_on" >>
  /\ request[1].body.filters # << >>
  /\ response[1].status = 400

(***************************************************************************)
(* Claims about the saved-diagram store.                                   *)
(***************************************************************************)
\* the call of the repository that has just been made
LastCall == db_call[1]

Made(op) == db_call # << >> /\ db_call[1].op = op

\* Python's == between a stored flag and a bool: 1 == True and 0 == False
PyEqual(stored, b) == (stored = 1 /\ b) \/ (stored = 0 /\ ~ b)

\* C13: get_by_id of an id returned by create, with no update or delete of that
\* id in between, returns a record whose name, mermaid_code and is_public equal
\* the submitted values, whatever happened to other records in between.
C13_CreateGetRoundTrip ==
  (Made("get_by_id") /\ LastCall.args.id \in DOMAIN submitted) =>
    LET s == submitted[LastCall.args.id]
    IN  /\ LastCall.ret # << >>
        /\ LastCall.ret[1].name = s.name
        /\ LastCall.ret[1].mermaid_code = s.mermaid_code
        /\ PyEqual(LastCall.ret[1].is_public, s.is_public)

\* a public record is read back after another record was created and
\* deleted
C13_Witness ==
  /\ Made("get_by_id") /\ LastCall.args.id = 1 /\ 1 \in DOMAIN submitted
  /\ submitted[1].is_public /\ submitted[1].name = "n2"
  /\ 2 \in deleted /\ calls = 3

\* the ids of the records a call returned: of a lookup, of a list
ReturnedIds ==
  IF Made("get_by_id") THEN { r.id : r \in { LastCall.ret[k] : k \in DOMAIN LastCall.ret } }
  ELSE IF Made("get_all") THEN { LastCall.ret[k].id : k \in DOMAIN LastCall.ret }
  ELSE {}

\* C14: once delete(id) has returned success, no later get_by_id(id) finds a
\* record and no later list contains one, whatever create, update and delete
\* calls were made after the delete.
C14_DeletedStaysDeleted ==
  /\ \A id \in deleted : id \notin DOMAIN custom_diagrams
  /\ Made("get_by_id") /\ LastCall.args.id \in deleted => LastCall.ret = << >>
  /\ ReturnedIds \cap deleted = {}

\* record 1 is looked up after it was deleted and another record was created
C14_Witness ==
  /\ Made("get_by_id") /\ LastCall.args.id = 1 /\ 1 \in deleted
  /\ sqlite_sequence = 2 /\ 2 \in DOMAIN custom_diagrams

\* C15: update called with none of name, description, mermaid_code, filters and
\* is_public returns False and leaves the whole table unchanged, updated_at of
\* the addressed record included, whether or not the id exists.
C15_EmptyUpdateIsNoOp ==
  [][ (db_call = << >> /\ db_call' # << >> /\ db_call'[1].op = "update"
         /\ db_call'[1].args.fields = NoFields)
        => /\ db_call'[1].ret = FALSE
           /\ custom_diagrams' = custom_diagrams
           /\ sqlite_sequence' = sqlite_sequence ]_vars

\* update with no fields has been called on a record written a second earlier
C15_Witness ==
  /\ Made("update") /\ LastCall.args.fields = NoFields
  /\ LastCall.args.id \in DOMAIN custom_diagrams
  /\ custom_diagrams[LastCall.args.id].updated_at < now

\* update with no fields has been called on an id the table does not hold
C15_WitnessAbsent ==
  /\ Made("update") /\ LastCall.args.fields = NoFields
  /\ LastCall.args.id \notin DOMAIN custom_diagrams

\* C16: get_all called without an owner returns exactly the records flagged
\* public, each once and as stored, and never a private record, for either
\* value of include_public.
C16_NoOwnerSeesPublicOnly ==
  (Made("get_all") /\ LastCall.args.user_id = << >>) =>
    /\ { LastCall.ret[k].id : k \in DOMAIN LastCall.ret }
         = { i \in DOMAIN custom_diagrams : custom_diagrams[i].is_public = 1 }
    /\ \A k \in DOMAIN LastCall.ret :
         /\ LastCall.ret[k] = custom_diagrams[LastCall.ret[k].id]
         /\ \A j \in DOMAIN LastCall.ret : j # k => LastCall.ret[j].id # LastCall.ret[k].id

\* a list without owner and with include_public False over a store holding a
\* private and a public record
C16_Witness ==
  /\ Made("get_all") /\ LastCall.args.user_id = << >> /\ ~ LastCall.args.include_public
  /\ \E i, j \in DOMAIN custom_diagrams :
       custom_diagrams[i].is_public = 0 /\ custom_diagrams[j].is_public = 1
  /\ Len(LastCall.ret) = 1

\* C17: for an id the table does not hold (never created, or deleted),
\* get_by_id returns None, update with at least one field returns False and
\* delete returns False; the endpoint that made the call answers 404; and the
\* failed call leaves the table unchanged.
C17_AbsentIdNotFound ==
  [][ (db_call = << >> /\ db_call' # << >>
         /\ db_call'[1].op \in { "get_by_id", "update", "delete" }
         /\ db_call'[1].args.id \notin DOMAIN custom_diagrams
         /\ (db_call'[1].op = "update" => db_call'[1].args.fields # NoFields))
        => /\ IF db_call'[1].op = "get_by_id"
                THEN db_call'[1].ret = << >>
                ELSE db_call'[1].ret = FALSE
           /\ custom_diagrams' = custom_diagrams
           /\ sqlite_sequence' = sqlite_sequence
           /\ response' # << >> => response'[1].status = 404 ]_vars

\* the delete endpoint has answered for an id that was deleted before
C17_Witness ==
  /\ Made("delete") /\ LastCall.args.id \in deleted /\ ~ LastCall.ret
  /\ response # << >> /\ response[1].status = 404

\* the update endpoint has answered for an id that was never created
C17_WitnessUpdate ==
  /\ Made("update") /\ LastCall.args.id > sqlite_sequence
  /\ LastCall.args.fields # NoFields
  /\ response # << >> /\ response[1].status = 404

\* the lookup endpoint has answered for an id that was never created
C17_WitnessGet ==
  /\ Made("get_by_id") /\ LastCall.args.id > sqlite_sequence
  /\ response # << >> /\ response[1].status = 404

(***************************************************************************)
(* Claims about the rendered documents.                                    *)
(***************************************************************************)
\* the clicks made while the render had completed successfully
GoodClicks == { k \in 1..Len(clicks) : clicks[k].render = "fulfilled" }

\* C18: in the documents of render_mermaid_with_export and
\* render_styled_mermaid an export click leads to a download only if the
\* initial render had already succeeded when it was made: while the render is
\* pending or after it failed no click starts a download, in any order of the
\* render's completion and the clicks.
C18_ExportOnlyAfterRender ==
  /\ (downloads # << >> \/ images > 0) => render = "fulfilled"
  /\ Len(downloads) + images <= Cardinality(GoodClicks)

\* a click made while the render was pending and a click made after it
\* succeeded: only the second has downloaded
C18_Witness ==
  /\ Len(clicks) = 2 /\ clicks[1].render = "pending" /\ clicks[2].render = "fulfilled"
  /\ clicks[2].format = "png" /\ downloads = << "diagram.png" >>

\* a click made after the render failed
C18_WitnessFailed ==
  /\ clicks # << >> /\ clicks[1].render = "rejected" /\ container = "error"
  /\ downloads = << >> /\ images = 0

\* C19 as stated: for every diagram text that the rendering engine rejects,
\* the document, once it has loaded and settled, shows an inline error message
\* in the diagram container.
C19_RejectedTextShowsError ==
  (document # << >> /\ script # "none" /\ render # "pending"
     /\ MustReject(document[1].mermaid_code))
    => container = "error"

(***************************************************************************)
(* Claims about the effects of the builders.                               *)
(***************************************************************************)
\* C20: a call of build_architecture_diagram, build_agent_diagram or
\* build_ds_diagram leaves the dict it was passed, PRESETS, ARCH_BLOCKS,
\* DS_BLOCKS and AGENT_DIAGRAM unchanged, and the text a call returned is the
\* text any call with an equal dict returns, whatever calls were made before.
C20_BuildersArePure ==
  /\ [][ /\ filters' = filters
         /\ PRESETS' = PRESETS
         /\ ARCH_BLOCKS' = ARCH_BLOCKS
         /\ AGENT_DIAGRAM' = AGENT_DIAGRAM
         /\ DS_BLOCKS' = DS_BLOCKS ]_vars
  /\ [](called # "none" =>
          \A d \in { filters, Reverse(filters) } : Build(called, d) = result)

\* build_ds_diagram was called on a dict that enables ds and governance and
\* whose keys are not in one order only
C20_Witness ==
  /\ called = "ds" /\ SetTrue(filters, "ds") /\ SetTrue(filters, "governance")
  /\ Reverse(filters) # filters
  /\ result # DS_BLOCKS_literal["main"]

(***************************************************************************)
(* Claims about the tag set and the cross-link rules.                      *)
(***************************************************************************)
\* the elements of a sequence
Elements(s) == { s[i] : i \in 1..Len(s) }

NineTags ==
  { "api", "orchestrator", "agents", "retrieval", "tools", "data", "governance",
    "obs", "ds" }

\* C21: block_order, the keys of ARCH_BLOCKS, the fields of DiagramFilters, the
\* checkbox keys of the UI and the keys of every shipped preset are the same 9
\* tags, each once, so every preset gives each tag a boolean.
C21_SameTagSet ==
  /\ Elements(block_order) = NineTags /\ Len(block_order) = Cardinality(NineTags)
  /\ DOMAIN ARCH_BLOCKS = NineTags
  /\ Elements(DiagramFiltersFields) = NineTags
  /\ Len(DiagramFiltersFields) = Cardinality(NineTags)
  /\ Elements(filter_labels) = NineTags
  /\ Len(filter_labels) = Cardinality(NineTags)
  /\ \A n \in DOMAIN PRESETS :
       /\ DictKeys(PRESETS[n]) = NineTags
       /\ Len(PRESETS[n]) = Cardinality(NineTags)
       /\ \A i \in 1..Len(PRESETS[n]) : PRESETS[n][i][2] \in BOOLEAN
  /\ response # << >> /\ request[1].path = "generate" /\ response[1].status = 200
       => DictKeys(response[1].filters) = NineTags

\* a generate request naming a preset was answered with that preset as the
\* complete configuration, in a session that has rendered its diagrams
C21_Witness ==
  /\ response # << >> /\ request[1].path = "generate"
  /\ request[1].body.preset = << "ds_pipeline" >>
  /\ response[1].filters = PRESETS["ds_pipeline"]
  /\ rendered # << >>

\* the link lines of all cross-link rules
LinkLines == UNION { CrossLinkRules[i].lines : i \in 1..Len(CrossLinkRules) }

\* the outputs of build_architecture_diagram on d with one tag disabled
WithOneDisabled(d) ==
  [ t \in NineTags |-> build_architecture_diagram(DictSet(d, t, FALSE)) ]

\* the tags a link line depends on: disabling the tag alone makes
\* build_architecture_diagram leave the line out
DependsOn(B, l) == { t \in NineTags : ~ HasLine(B[t], l) }

ThreeTags == { T \in SUBSET NineTags : Cardinality(T) = 3 }

CommentLine == "%% Cross-links (only show if both ends enabled)"

\* the part of an output of build_architecture_diagram after the comment line
\* that introduces the links
LinkSection(text) ==
  LET at == CHOOSE i \in 1..Len(text) : text[i] = CommentLine
  IN  SubSeq(text, at + 2, Len(text))

\* the rules of the group of a tag: observability or governance
GroupRules(group) ==
  { i \in 1..Len(CrossLinkRules) :
      group \in CrossLinkRules[i].tags /\ group \in { "obs", "governance" } }

\* the tags the rules of a group test
GroupTags(group) == UNION { CrossLinkRules[i].tags : i \in GroupRules(group) }

Qualifies(d, i) == \A t \in CrossLinkRules[i].tags : SetTrue(d, t)

\* C23: for the observability group, and likewise the governance group, in a
\* configuration that sets the tags of the group: when the group tag is
\* enabled and no inner link qualifies, the links part of the output is the one
\* of the same configuration with the group disabled, and no line of it is
\* empty; otherwise exactly the link lines of the qualifying rules of the
\* group are lines of it, each once and each followed by a line break.
C23_GroupLinks ==
  called = "architecture" =>
    LET S == LinkSection(result)
    IN  /\ \A k \in 1..Len(S) : S[k] = NL => (k > 1 /\ S[k - 1] # NL)
        /\ S # << >> => S[Len(S)] = NL
        /\ \A group \in { "obs", "governance" } :
             GroupTags(group) \subseteq DictKeys(filters) =>
               /\ \A i \in GroupRules(group) :
                    \A l \in CrossLinkRules[i].lines :
                      Cardinality({ k \in 1..Len(S) : S[k] = l })
                        = (IF Qualifies(filters, i) THEN 1 ELSE 0)
               /\ (Value(filters, group) /\ \A i \in GroupRules(group) : ~ Qualifies(filters, i))
                    => S = LinkSection(build_architecture_diagram(
                                         DictSet(filters, group, FALSE)))

\* observability and governance are enabled, none of their links qualifies,
\* and the links part of the output is empty
C23_Witness ==
  /\ called = "architecture" /\ IsTotal(filters) /\ Value(filters, "obs")
  /\ \A i \in GroupRules("obs") : ~ Qualifies(filters, i)
  /\ Value(filters, "governance") /\ LinkSection(result) = << >>

\* governance is enabled and only its api link qualifies
C23_WitnessOne ==
  /\ called = "architecture" /\ IsTotal(filters) /\ Value(filters, "governance")
  /\ Value(filters, "api") /\ ~ Value(filters, "agents")
  /\ LinkSection(result) = << "API1 --> AUTH", NL >>

\* the places of a line in a text
LineAt(text, l) == { k \in 1..Len(text) : text[k] = l }

\* C24: in every output of build_architecture_diagram every fragment ends
\* before the first link line, and the link lines that are present are in the
\* order of their rules: api-orchestrator, orchestrator-agents,
\* agents-retrieval, retrieval-data, tools-agents, tools-data, the
\* observability links, the governance links, ds-agents.
C24_LinksAfterFragmentsInRuleOrder ==
  called = "architecture" =>
    /\ \A t \in NineTags, l \in LinkLines :
         \A p \in Positions(result, ARCH_BLOCKS[t]), k \in LineAt(result, l) :
           p + Len(ARCH_BLOCKS[t]) - 1 < k
    /\ \A i, j \in 1..Len(CrossLinkRules) :
         i < j =>
           \A li \in CrossLinkRules[i].lines, lj \in CrossLinkRules[j].lines :
             \A ki \in LineAt(result, li), kj \in LineAt(result, lj) : ki < kj

\* every fragment and every link is present
C24_Witness ==
  /\ called = "architecture"
  /\ \A t \in NineTags : Positions(result, ARCH_BLOCKS[t]) # {}
  /\ \A l \in LinkLines : LineAt(result, l) # {}

(***************************************************************************)
(* Further claims about the saved-diagram store and the session.           *)
(***************************************************************************)
\* the columns update never names
FixedColumns == { "id", "diagram_type", "user_id", "created_at" }

\* the stored value of a column equals the value supplied for it
Carries(row, c, f) ==
  CASE c = "name"         -> row.name = f.name[1]
    [] c = "description"  -> row.description = << f.description[1] >>
    [] c = "mermaid_code" -> row.mermaid_code = f.mermaid_code[1]
    [] c = "filters"      -> row.filters = << json_dumps(f.filters[1]) >>
    [] c = "is_public"    -> PyEqual(row.is_public, f.is_public[1])

\* C25: update on an existing id with at least one field supplied returns True
\* and sets exactly the supplied fields to the supplied values, and updated_at;
\* id, diagram_type, user_id, created_at and the fields not supplied keep their
\* values, every other record is unchanged, and is_public = False and
\* description = '' count as supplied.
C25_UpdateFrame ==
  [][ (db_call = << >> /\ db_call' # << >> /\ db_call'[1].op = "update"
         /\ db_call'[1].args.id \in DOMAIN custom_diagrams
         /\ db_call'[1].args.fields # NoFields)
        => LET id  == db_call'[1].args.id
               f   == db_call'[1].args.fields
               old == custom_diagrams[id]
               new == custom_diagrams'[id]
           IN  /\ db_call'[1].ret = TRUE
               /\ DOMAIN custom_diagrams' = DOMAIN custom_diagrams
               /\ \A i \in DOMAIN custom_diagrams \ { id } :
                    custom_diagrams'[i] = custom_diagrams[i]
               /\ \A c \in FixedColumns : new[c] = old[c]
               /\ \A c \in { "name", "description", "mermaid_code", "filters", "is_public" } :
                    IF f[c] # << >> THEN Carries(new, c, f) ELSE new[c] = old[c]
               /\ new.updated_at = now ]_vars

\* a public record with a description was made private and its description
\* emptied a second after it was created, next to another record
C25_Witness ==
  /\ Made("update") /\ LastCall.ret
  /\ LastCall.args.fields = [ NoFields EXCEPT !.description = << "" >>,
                                               !.is_public = << FALSE >> ]
  /\ custom_diagrams[LastCall.args.id].name = "n2"
  /\ custom_diagrams[LastCall.args.id].is_public = 0
  /\ custom_diagrams[LastCall.args.id].created_at < now
  /\ Cardinality(DOMAIN custom_diagrams) = 2

\* C26: in every state of the interactive session, after initialisation and
\* any sequence of checkbox toggles and preset applications, the dict in
\* st.session_state.filters has each of the 9 tags once, no other key, and
\* boolean values; and the diagrams on the page are the ones the builders
\* return for that dict.
C26_SessionFiltersTotal ==
  session_state # << >> =>
    /\ DictKeys(SessionFilters) = NineTags
    /\ Len(SessionFilters) = Cardinality(NineTags)
    /\ \A i \in 1..Len(SessionFilters) : SessionFilters[i][2] \in BOOLEAN
    /\ (rendered # << >> /\ ~ rerun_pending) =>
         /\ rendered[1].architecture = build_architecture_diagram(SessionFilters)
         /\ rendered[1].agent = build_agent_diagram(SessionFilters)
         /\ rendered[1].ds = build_ds_diagram(SessionFilters)

\* the page shows the diagrams of a configuration that is no preset and is one
\* toggle away from a preset other than all_on
C26_Witness ==
  /\ session_state # << >> /\ rendered # << >> /\ ~ rerun_pending
  /\ \A n \in PresetNames : SessionFilters # PRESETS_literal[n]
  /\ \E n \in PresetNames \ { "all_on" } :
       Cardinality({ i \in 1..Len(SessionFilters) :
                       SessionFilters[i] # PRESETS_literal[n][i] }) = 1

\* the ids of the diagrams the page displays
DisplayedIds == { LastCall.ret[k].id : k \in DOMAIN LastCall.ret }

\* C27 as stated: every diagram saved from the editor or the quick-create form
\* and not deleted since is displayed by the Custom Diagrams page when "Show
\* Public" and "Show Private" are checked and the type is "All", whether it
\* was saved as public or as private.
C27_PageShowsEverySavedDiagram ==
  (Made("page") /\ LastCall.args.show_public /\ LastCall.args.show_private
     /\ LastCall.args.selected_type = "All")
    => DOMAIN custom_diagrams \subseteq DisplayedIds

\* the node a line of a fragment declares: the id before the shape brackets
NodeDeclarations ==
  { << "  UI[Web UI / Chat UI]", "UI" >>,
    << "  API1[FastAPI / Gateway]", "API1" >>,
    << "  ROUTER[Router / Policy]", "ROUTER" >>,
    << "  STATE[State Store]", "STATE" >>,
    << "  PLAN[Planner Agent]", "PLAN" >>,
    << "  SPEC[\"Specialized Agents<br/>(Policy, DS, Ops, Risk)\"]", "SPEC" >>,
    << "  VALID[Validator / Critic]", "VALID" >>,
    << "  EMB[Embed Query]", "EMB" >>,
    << "  VEC[Vector Search]", "VEC" >>,
    << "  CHUNK[Top-K Chunks]", "CHUNK" >>,
    << "  AUG[Prompt Augmentation]", "AUG" >>,
    << "  DBT[\"DB Tool<br/>(SQL/NoSQL/Warehouse)\"]", "DBT" >>,
    << "  FILE[\"Doc Tool<br/>(PDF/DOC/HTML)\"]", "FILE" >>,
    << "  WEB[Web Search Tool]", "WEB" >>,
    << "  ACT[\"Action Tool<br/>(API calls / tickets / emails)\"]", "ACT" >>,
    << "  VDB[(Vector DB)]", "VDB" >>,
    << "  POL[(Policy Docs)]", "POL" >>,
    << "  DWH[(Warehouse / Lake)]", "DWH" >>,
    << "  LOGS[(Logs / Traces)]", "LOGS" >>,
    << "  AUTH[AuthN/AuthZ]", "AUTH" >>,
    << "  PII[PII / Secrets Filter]", "PII" >>,
    << "  INJ[Prompt Injection Guard]", "INJ" >>,
    << "  PROV[Provenance / Citation Policy]", "PROV" >>,
    << "  MET[Metrics]", "MET" >>,
    << "  TRC[Traces]", "TRC" >>,
    << "  EVAL[Offline Eval / Regression Tests]", "EVAL" >>,
    << "  DSREQ[Project Brief / Hypothesis]", "DSREQ" >>,
    << "  DSPIP[\"EDA, Features, Model, Eval\"]", "DSPIP" >>,
    << "  DSPKG[\"Packaging<br/>(Batch/Realtime)\"]", "DSPKG" >> }

\* the two nodes a link line connects: the ids on both sides of the arrow
LinkEndpoints ==
  { << "API1 --> ROUTER", { "API1", "ROUTER" } >>,
    << "ROUTER --> PLAN", { "ROUTER", "PLAN" } >>,
    << "VALID --> ROUTER", { "VALID", "ROUTER" } >>,
    << "SPEC --> EMB", { "SPEC", "EMB" } >>,
    << "AUG --> SPEC", { "AUG", "SPEC" } >>,
    << "VEC <--> VDB", { "VEC", "VDB" } >>,
    << "CHUNK --> POL", { "CHUNK", "POL" } >>,
    << "SPEC --> DBT", { "SPEC", "DBT" } >>,
    << "SPEC --> FILE", { "SPEC", "FILE" } >>,
    << "SPEC --> WEB", { "SPEC", "WEB" } >>,
    << "VALID --> ACT", { "VALID", "ACT" } >>,
    << "DBT <--> DWH", { "DBT", "DWH" } >>,
    << "FILE <--> POL", { "FILE", "POL" } >>,
    << "WEB --> POL", { "WEB", "POL" } >>,
    << "ACT --> DWH", { "ACT", "DWH" } >>,
    << "API1 --> MET", { "API1", "MET" } >>,
    << "ROUTER --> TRC", { "ROUTER", "TRC" } >>,
    << "VALID --> TRC", { "VALID", "TRC" } >>,
    << "ACT --> TRC", { "ACT", "TRC" } >>,
    << "TRC --> LOGS", { "TRC", "LOGS" } >>,
    << "API1 --> AUTH", { "API1", "AUTH" } >>,
    << "SPEC --> PII", { "SPEC", "PII" } >>,
    << "SPEC --> INJ", { "SPEC", "INJ" } >>,
    << "VALID --> PROV", { "VALID", "PROV" } >>,
    << "PLAN --> DSREQ", { "PLAN", "DSREQ" } >>,
    << "DSPIP --> SPEC", { "DSPIP", "SPEC" } >>,
    << "DSPKG --> ACT", { "DSPKG", "ACT" } >> }

\* the nodes declared by the fragments of a diagram text
DeclaredNodes(text) == { p[2] : p \in { n \in NodeDeclarations : n[1] \in Elements(text) } }

\* the nodes at the ends of the link lines of a diagram text
EndpointNodes(text) ==
  UNION { p[2] : p \in { e \in LinkEndpoints : e[1] \in Elements(LinkSection(text)) } }

\* C28 as stated: in every output of build_architecture_diagram each node at
\* either end of an emitted link line is declared by a fragment that is
\* emitted too, the three ds-agents lines included.
C28_NoDanglingEndpoints ==
  called = "architecture" => EndpointNodes(result) \subseteq DeclaredNodes(result)

\* C29: the ids returned by create calls, sequential or concurrent, are all
\* different, also after records were deleted: no id is issued twice.
C29_IdsNeverReissued ==
  \A i, j \in DOMAIN issued : i # j => issued[i] # issued[j]

\* two create calls that were in flight together have both returned
C29_Witness ==
  /\ InFlight = {}
  /\ \A c \in Callers : connections[c].op = "create"
  /\ \E c \in Callers : connections[c].during # {}
  /\ Len(issued) = 2

\* a create call returned after the record of an earlier one was deleted
C29_WitnessDeleted ==
  /\ Len(issued) = 2 /\ issued[1] \notin DOMAIN custom_diagrams
  /\ issued[2] \in DOMAIN custom_diagrams

\* callers a and b have both finished update calls on the same id that were in
\* flight together, each supplying at least one field and no field in common
ConcurrentUpdates(a, b) ==
  /\ a # b /\ InFlight = {}
  /\ connections[a].op = "update" /\ connections[b].op = "update"
  /\ connections[b].n \in connections[a].during
  /\ connections[a].args[1].id = connections[b].args[1].id
  /\ Supplied(connections[a].args[1].fields) # {}
  /\ Supplied(connections[b].args[1].fields) # {}
  /\ Supplied(connections[a].args[1].fields)
       \cap Supplied(connections[b].args[1].fields) = {}

=============================================================================
